---- MODULE Spec2Model ----
(***************************************************************************)
(* A model of PySymex: the symex data model, environments, closures and    *)
(* primitives, the direct (structurally recursive) evaluator and the       *)
(* stack-machine evaluator with its explicit work stack of frames.         *)
(*                                                                         *)
(* Values.  A Symex is a record: an atom is [a |-> text], a list is        *)
(* [l |-> <<items>>].  A raised Python exception is [err |-> class,        *)
(* msg |-> message]; Python's None is [none |-> TRUE].                     *)
(***************************************************************************)
EXTENDS Integers, Sequences, FiniteSets, TLC

VARIABLES
    expr,         \* Machine.eval_in / Simple.eval_in argument expr
    env,          \* ... and argument env (a sequence of Binding records)
    pc,           \* position of the driver: idle, ready, loop, done, error
    call_stack,   \* Machine.eval_in's call_stack (top of stack = last element)
    last_result,  \* Machine.eval_in's last_result
    direct,       \* outcome of the direct evaluator on (expr, env)
    result,       \* outcome of the machine evaluator on (expr, env)
    heap,         \* the Environment objects alive: object id -> its bindings
    held,         \* environments a caller still holds: id -> bindings it saw
    op            \* the last operation of symex.types applied, with what it returned

vars == <<expr, env, pc, call_stack, last_result, direct, result, heap, held, op>>
machineVars == <<expr, env, pc, call_stack, last_result, direct, result>>
typesVars == <<heap, held, op>>

-----------------------------------------------------------------------------
(* Bounds of the model *)

\* longest argument list fed to the recursive program Laugh, and most
\* operands And and Or are given
MaxN == 3
\* longest argument list fed to the tail-recursive programs
MaxTail == 6
\* deepest nesting of eval_in calls the direct evaluator is given (the host
\* call stack; beyond it the direct evaluator raises RecursionError)
MaxDepth == 17
\* longest list of new bindings, of parameters and of arguments drawn
MaxBind == 2
\* most Environment objects alive at once
MaxEnvs == 3

-----------------------------------------------------------------------------
(* symex.symex: SAtom, SList *)

SAtom(text) == [a |-> text]
SList(items) == [l |-> items]
None == [none |-> TRUE]
Raise(cls, msg) == [err |-> cls, msg |-> msg]

IsErr(v) == "err" \in DOMAIN v
IsNone(v) == "none" \in DOMAIN v

is_list(v) == "l" \in DOMAIN v
is_atom(v) == ~is_list(v)

\* The atom texts of the model's universe whose first character is ':'.
ColonTexts == {":true", ":false", ":closure", ":primitive", ":ha", ":a", ":b",
               ":one", ":two", ":three", ":four", ":five", ":test", ":blue",
               ":yellow", ":raspberry", ":hello", ":done", ":", ":x"}

\* SAtom.is_data_atom: len(text) >= 1 and text[0] == ':'; SList.is_data_atom: False
is_data_atom(v) == is_atom(v) /\ v.a \in ColonTexts

\* SAtom.__bool__: text != ':false'
SAtom_bool(v) == v.a # ":false"
\* the truth value Python gives an object that defines __len__ and no
\* __bool__: an empty list is false
SList_bool_by_len(v) == Len(v.l) # 0
\* SList.__bool__: True
SList_bool(v) == TRUE
\* bool(symex), dispatched on the class
Truthy(v) == IF is_atom(v) THEN SAtom_bool(v) ELSE SList_bool(v)

TrueAtom == SAtom(":true")
FalseAtom == SAtom(":false")

\* Python's  a, b, ... = items  with n targets
UnpackError == Raise("ValueError", "unpack")

-----------------------------------------------------------------------------
(* symex.types: Binding, Environment *)

Binding(name, value) == [name |-> name, value |-> value]

\* Environment.__contains__
env_contains(bindings, name) == \E i \in 1..Len(bindings) : bindings[i].name = name

\* a lookup that scans the bindings from the back: the last match wins
env_getitem_last_match(bindings, name) ==
    LET hits == {i \in 1..Len(bindings) : bindings[i].name = name}
    IN IF hits = {}
       THEN Raise("ValueError", "the name is not in this environment")
       ELSE bindings[CHOOSE i \in hits : \A j \in hits : j <= i].value

\* Environment.__getitem__: the for loop over self.bindings
RECURSIVE env_getitem(_, _)
env_getitem(bindings, name) ==
    IF bindings = <<>>
    THEN Raise("ValueError", "the name is not in this environment")
    ELSE IF Head(bindings).name = name
         THEN Head(bindings).value
         ELSE env_getitem(Tail(bindings), name)

\* Environment.extend_with: Environment(new_bindings + self.bindings)
extend_with(bindings, new_bindings) == new_bindings \o bindings

\* Binding.to_symex
Binding_to_symex(b) == SList(<<b.name, b.value>>)

\* a serialization that does not keep the order of the bindings
Environment_to_symex_reversed(bindings) ==
    SList([i \in 1..Len(bindings) |->
              Binding_to_symex(bindings[Len(bindings) + 1 - i])])

\* Environment.to_symex
Environment_to_symex(bindings) ==
    SList([i \in 1..Len(bindings) |-> Binding_to_symex(bindings[i])])

\* Binding.from_symex (types.py): a Binding record or an error
Binding_from_symex(symex) ==
    IF is_atom(symex)
    THEN Raise("ValueError", "tried to treat an atom as a binding")
    ELSE IF Len(symex.l) = 2 /\ is_atom(symex.l[1])
         THEN Binding(symex.l[1], symex.l[2])
         ELSE Raise("ValueError", "not a well-formed binding")

\* The first exception a list comprehension raises, if any
FirstErr(seq) ==
    LET bad == {i \in 1..Len(seq) : IsErr(seq[i])}
    IN seq[CHOOSE i \in bad : \A j \in bad : i <= j]
AnyErr(seq) == \E i \in 1..Len(seq) : IsErr(seq[i])

\* Environment.from_symex (types.py): [env |-> bindings] or an error
Environment_from_symex(symex) ==
    IF is_atom(symex)
    THEN Raise("ValueError", "tried to treat an atom as an environment")
    ELSE LET bs == [i \in 1..Len(symex.l) |-> Binding_from_symex(symex.l[i])]
         IN IF AnyErr(bs) THEN FirstErr(bs) ELSE [env |-> bs]

-----------------------------------------------------------------------------
(* symex.types: Closure, Function *)

\* the dataclass Closure(params, name, body, env); name is None when unnamed
Closure(params, name, body, cenv) ==
    [params |-> params, name |-> name, body |-> body, env |-> cenv]

\* a serialization that loses the closure's self-name
Closure_to_symex_unnamed(c) ==
    SList(<<SAtom(":closure"), SList(<<>>), SList(c.params), c.body,
            Environment_to_symex(c.env)>>)

\* Closure.to_symex
Closure_to_symex(c) ==
    LET name_list == IF ~IsNone(c.name) THEN SList(<<c.name>>) ELSE SList(<<>>)
    IN SList(<<SAtom(":closure"), name_list, SList(c.params), c.body,
               Environment_to_symex(c.env)>>)

\* Closure.from_symex (types.py): a Closure record or an error
Closure_from_symex(symex) ==
    IF is_atom(symex)
    THEN Raise("ValueError", "this is an atom, not a closure")
    ELSE IF /\ Len(symex.l) = 5
            /\ symex.l[1] = SAtom(":closure")
            /\ is_list(symex.l[2])
            /\ is_list(symex.l[3])
    THEN LET name_list == symex.l[2].l
             params == symex.l[3].l
             body == symex.l[4]
             e == Environment_from_symex(symex.l[5])
         IN IF ~(Len(name_list) = 0 \/ (Len(name_list) = 1 /\ is_atom(name_list[1])))
            THEN Raise("ValueError", "this closure's name list isn't well-formed")
            ELSE IF \E i \in 1..Len(params) : ~is_atom(params[i])
            THEN Raise("ValueError", "this parameter isn't an atom")
            ELSE IF IsErr(e) THEN e
            ELSE Closure(params,
                         IF Len(name_list) = 1 THEN name_list[1] ELSE None,
                         body, e.env)
    ELSE IF Len(symex.l) >= 1 /\ symex.l[1] = SAtom(":closure")
    THEN Raise("ValueError", "this closure isn't well-formed")
    ELSE Raise("ValueError", "this isn't a closure")

\* a build_env that extends the captured environment with the bindings twice
Closure_build_env_binds_twice(c, args) ==
    LET self_symex == Closure_to_symex(c)
        bindings == [i \in 1..Len(c.params) |-> Binding(c.params[i], args[i])]
        named == IF ~IsNone(c.name)
                 THEN <<Binding(c.name, self_symex)>> \o bindings
                 ELSE bindings
    IN IF Len(args) # Len(c.params)
       THEN Raise("ValueError", "closure got wrong number of arguments")
       ELSE [env |-> extend_with(extend_with(c.env, named), named)]

\* a build_env that leaves the self-name unbound
Closure_build_env_no_self(c, args) ==
    LET bindings == [i \in 1..Len(c.params) |-> Binding(c.params[i], args[i])]
    IN IF Len(args) # Len(c.params)
       THEN Raise("ValueError", "closure got wrong number of arguments")
       ELSE [env |-> extend_with(c.env, bindings)]

\* a build_env that binds the self-name behind the parameters
Closure_build_env_self_last(c, args) ==
    LET self_symex == Closure_to_symex(c)
        bindings == [i \in 1..Len(c.params) |-> Binding(c.params[i], args[i])]
        named == IF ~IsNone(c.name)
                 THEN bindings \o <<Binding(c.name, self_symex)>>
                 ELSE bindings
    IN IF Len(args) # Len(c.params)
       THEN Raise("ValueError", "closure got wrong number of arguments")
       ELSE [env |-> extend_with(c.env, named)]

\* Closure.build_env: the call environment (bindings) or an error
Closure_build_env(c, args) ==
    LET self_symex == Closure_to_symex(c)
        bindings == [i \in 1..Len(c.params) |-> Binding(c.params[i], args[i])]
        named == IF ~IsNone(c.name)
                 THEN <<Binding(c.name, self_symex)>> \o bindings
                 ELSE bindings
    IN IF Len(args) # Len(c.params)
       THEN Raise("ValueError", "closure got wrong number of arguments")
       ELSE [env |-> extend_with(c.env, named)]

\* build_function_env of interpreters/common.py: the same on the closure's
\* symex; the call environment (bindings) or an error
build_function_env(function, args) ==
    IF is_atom(function)
    THEN Raise("ValueError", "this is an atom, not a list")
    ELSE IF Len(function.l) # 5 THEN UnpackError
    ELSE LET name_list == function.l[2]
             params == function.l[3]
             env_expr == function.l[5]
             fenv == Environment_from_symex(env_expr)
             bindings == [i \in 1..Len(params.l) |-> Binding(params.l[i], args[i])]
         IN IF is_atom(params)
            THEN Raise("ValueError", "this is an atom, not a list")
            ELSE IF IsErr(fenv) THEN fenv
            ELSE IF Len(args) # Len(params.l)
            THEN Raise("ValueError", "closure got wrong number of arguments")
            ELSE IF \E i \in 1..Len(params.l) : is_list(params.l[i])
            THEN Raise("ValueError", "this is a list, not an atom")
            ELSE IF is_atom(name_list)
            THEN Raise("ValueError", "this is an atom, not a list")
            ELSE IF Len(name_list.l) = 0
            THEN [env |-> extend_with(fenv.env, bindings)]
            ELSE IF Len(name_list.l) # 1 THEN UnpackError
            ELSE IF is_list(name_list.l[1])
            THEN Raise("ValueError", "this is a list, not an atom")
            ELSE [env |-> extend_with(fenv.env,
                                      <<Binding(name_list.l[1], function)>> \o bindings)]

-----------------------------------------------------------------------------
(* symex.primitives *)

\* the dataclass Primitive(name)
Primitive(name) == [prim |-> name]

\* Primitive.to_symex
Primitive_to_symex(p) == SList(<<SAtom(":primitive"), p.prim>>)

\* Primitive.from_symex
Primitive_from_symex(symex) ==
    IF is_list(symex) /\ Len(symex.l) = 2 /\ symex.l[1] = SAtom(":primitive")
       /\ is_atom(symex.l[2])
    THEN Primitive(symex.l[2])
    ELSE IF is_list(symex) /\ Len(symex.l) >= 1 /\ symex.l[1] = SAtom(":primitive")
    THEN Raise("ValueError", "this is an ill-formed primitive function")
    ELSE Raise("ValueError", "this isn't a primitive function")

Not(args) ==
    IF Len(args) # 1 THEN UnpackError
    ELSE IF args[1] = FalseAtom THEN TrueAtom ELSE FalseAtom

Equal(args) ==
    IF Len(args) = 0 THEN TrueAtom
    ELSE IF \E i \in 2..Len(args) : args[1] # args[i] THEN FalseAtom
    ELSE TrueAtom

\* a Cons that puts the new element behind the list
Cons_append(args) ==
    IF Len(args) = 2 /\ is_list(args[2]) THEN SList(args[2].l \o <<args[1]>>)
    ELSE IF Len(args) = 2
    THEN Raise("ValueError", "the Cons function got something that isn't a list")
    ELSE Raise("ValueError", "the Cons function got the wrong number of arguments")

Cons(args) ==
    IF Len(args) = 2 /\ is_list(args[2]) THEN SList(<<args[1]>> \o args[2].l)
    ELSE IF Len(args) = 2
    THEN Raise("ValueError", "the Cons function got something that isn't a list")
    ELSE Raise("ValueError", "the Cons function got the wrong number of arguments")

PrimHead(args) ==
    IF Len(args) = 1
    THEN IF is_list(args[1]) /\ Len(args[1].l) >= 1 THEN args[1].l[1]
         ELSE IF is_list(args[1])
         THEN Raise("ValueError", "the Head function got an empty list")
         ELSE Raise("ValueError", "the Head function got something that isn't a list")
    ELSE IF Len(args) = 0
    THEN Raise("ValueError", "the Head function didn't get any arguments")
    ELSE Raise("ValueError", "the Head function got too many arguments")

PrimTail(args) ==
    IF Len(args) = 1
    THEN IF is_list(args[1]) /\ Len(args[1].l) >= 1 THEN SList(Tail(args[1].l))
         ELSE IF is_list(args[1])
         THEN Raise("ValueError", "the Tail function got an empty list")
         ELSE Raise("ValueError", "the Tail function got something that isn't a list")
    ELSE IF Len(args) = 0
    THEN Raise("ValueError", "the Tail function didn't get any arguments")
    ELSE Raise("ValueError", "the Tail function got too many arguments")

List(args) == SList(args)

\* Error: raise ValueError(f'Symex error: {args[0]}'); args[0] itself raises
\* IndexError on an empty argument sequence
Error(args) ==
    IF Len(args) = 0 THEN Raise("IndexError", "tuple index out of range")
    ELSE Raise("ValueError", "Symex error")

IsDataAtom(args) ==
    IF Len(args) # 1 THEN UnpackError
    ELSE IF is_data_atom(args[1]) THEN TrueAtom ELSE FalseAtom

\* the keys of primitive_dict, in registration order
PrimitiveNames == <<"Not", "=", "Cons", "Head", "Tail", "List", "Error", "Is-Data-Atom">>

\* Primitive.apply: self.func(args), func = primitive_dict[self.name.text]
Primitive_apply(p, args) ==
    CASE p.prim.a = "Not" -> Not(args)
      [] p.prim.a = "=" -> Equal(args)
      [] p.prim.a = "Cons" -> Cons(args)
      [] p.prim.a = "Head" -> PrimHead(args)
      [] p.prim.a = "Tail" -> PrimTail(args)
      [] p.prim.a = "List" -> List(args)
      [] p.prim.a = "Error" -> Error(args)
      [] p.prim.a = "Is-Data-Atom" -> IsDataAtom(args)
      [] OTHER -> Raise("KeyError", "primitive_dict")

\* primitive_env after the module is loaded: one binding per primitive_func, in
\* order, then add_primitive('Nil', SList([]))
primitive_env ==
    [i \in 1..Len(PrimitiveNames) |->
        Binding(SAtom(PrimitiveNames[i]),
                SList(<<SAtom(":primitive"), SAtom(PrimitiveNames[i])>>))]
    \o <<Binding(SAtom("Nil"), SList(<<>>))>>

\* Function.from_symex (types.py): a Closure, a Primitive or an error
Function_from_symex(symex) ==
    IF is_atom(symex)
    THEN Raise("ValueError", "tried to treat an atom as a function")
    ELSE IF Len(symex.l) >= 1 /\ symex.l[1] = SAtom(":closure")
    THEN Closure_from_symex(symex)
    ELSE IF Len(symex.l) >= 1 /\ symex.l[1] = SAtom(":primitive")
    THEN Primitive_from_symex(symex)
    ELSE Raise("ValueError", "not a recognizable function")

IsClosure(f) == "params" \in DOMAIN f
IsPrimitive(f) == "prim" \in DOMAIN f

-----------------------------------------------------------------------------
(* symex.interpreters.machine: frames *)

\* FrameResult(new_frames, result_expr)
FrameResult(new_frames, result_expr) ==
    [new_frames |-> new_frames, result_expr |-> result_expr]

Evaluate(e, fenv) == [k |-> "Evaluate", expr |-> e, env |-> fenv]
EvaluateForCall(e, values, fenv) ==
    [k |-> "EvaluateForCall", expr |-> e, values |-> values, env |-> fenv]
GotValueForCall(e, values, fenv) ==
    [k |-> "GotValueForCall", expr |-> e, values |-> values, env |-> fenv]
Cond(cases, fenv) == [k |-> "Cond", cases |-> cases, env |-> fenv]
GotValueForCond(outcome_if_true, remaining_cases, fenv) ==
    [k |-> "GotValueForCond", outcome_if_true |-> outcome_if_true,
     remaining_cases |-> remaining_cases, env |-> fenv]
Where(body_expr, binding_exprs, fenv) ==
    [k |-> "Where", body_expr |-> body_expr, binding_exprs |-> binding_exprs,
     env |-> fenv]
GotValueForWhere(body_expr, binding_exprs, fenv, new_binding_name) ==
    [k |-> "GotValueForWhere", body_expr |-> body_expr,
     binding_exprs |-> binding_exprs, env |-> fenv,
     new_binding_name |-> new_binding_name]

-----------------------------------------------------------------------------
(* symex.interpreters.machine_builtins: the machine's special forms *)

\* a make_closure that captures no environment
machine_make_closure_no_capture(name, params, body, cenv) ==
    IF ~IsNone(name) /\ ~is_atom(name)
    THEN Raise("ValueError", "function name should be an atom")
    ELSE IF ~is_list(params)
    THEN Raise("ValueError", "argument list should be a list")
    ELSE IF \E i \in 1..Len(params.l) : ~is_atom(params.l[i])
    THEN Raise("ValueError", "this is a list, not an atom")
    ELSE SList(<<SAtom(":closure"),
                 IF IsNone(name) THEN SList(<<>>) ELSE SList(<<name>>),
                 SList(params.l),
                 body,
                 Environment_to_symex(<<>>)>>)

\* make_closure(name, params, body, env) of machine_builtins.py
machine_make_closure(name, params, body, cenv) ==
    IF ~IsNone(name) /\ ~is_atom(name)
    THEN Raise("ValueError", "function name should be an atom")
    ELSE IF ~is_list(params)
    THEN Raise("ValueError", "argument list should be a list")
    ELSE IF \E i \in 1..Len(params.l) : ~is_atom(params.l[i])
    THEN Raise("ValueError", "this is a list, not an atom")
    ELSE SList(<<SAtom(":closure"),
                 IF IsNone(name) THEN SList(<<>>) ELSE SList(<<name>>),
                 SList(params.l),
                 body,
                 Environment_to_symex(cenv)>>)

\* a Quote that returns neither a result nor frames
machine_Quote_no_result(arg_exprs, fenv) ==
    IF Len(arg_exprs.l) # 1 THEN UnpackError
    ELSE FrameResult(<<>>, None)

machine_Quote(arg_exprs, fenv) ==
    IF Len(arg_exprs.l) # 1 THEN UnpackError
    ELSE FrameResult(<<>>, arg_exprs.l[1])

machine_Lambda(arg_exprs, fenv) ==
    IF Len(arg_exprs.l) # 2 THEN UnpackError
    ELSE LET closure == machine_make_closure(None, arg_exprs.l[1], arg_exprs.l[2], fenv)
         IN IF IsErr(closure) THEN closure ELSE FrameResult(<<>>, closure)

machine_Function_(arg_exprs, fenv) ==
    IF Len(arg_exprs.l) # 3 THEN UnpackError
    ELSE LET closure == machine_make_closure(arg_exprs.l[1], arg_exprs.l[2],
                                             arg_exprs.l[3], fenv)
         IN IF IsErr(closure) THEN closure ELSE FrameResult(<<>>, closure)

\* Cond_: case_lists = [case.as_list for case in arg_exprs]
Cond_(arg_exprs, fenv) ==
    IF \E i \in 1..Len(arg_exprs.l) : is_atom(arg_exprs.l[i])
    THEN Raise("ValueError", "this is an atom, not a list")
    ELSE FrameResult(<<Cond(arg_exprs.l, fenv)>>, None)

\* Where_: body_expr, *binding_exprs = arg_exprs
Where_(arg_exprs, fenv) ==
    IF Len(arg_exprs.l) = 0 THEN UnpackError
    ELSE FrameResult(<<Where(arg_exprs.l[1], Tail(arg_exprs.l), fenv)>>, None)

\* the keys of the dict `builtins` of machine_builtins.py
machine_builtins == {"Quote", "Lambda", "Function", "Cond", "Where"}

\* builtins[name](arg_exprs, env)
machine_builtin_call(name, arg_exprs, fenv) ==
    CASE name = "Quote" -> machine_Quote(arg_exprs, fenv)
      [] name = "Lambda" -> machine_Lambda(arg_exprs, fenv)
      [] name = "Function" -> machine_Function_(arg_exprs, fenv)
      [] name = "Cond" -> Cond_(arg_exprs, fenv)
      [] name = "Where" -> Where_(arg_exprs, fenv)

\* a Cond.call that pushes the continuation on top of the condition's
\* Evaluate frame
Cond_call_continuation_on_top(f, value) ==
    IF Len(f.cases) = 0
    THEN Raise("ValueError", "none of the conditions were true")
    ELSE LET first_case == Head(f.cases)
             remaining_cases == Tail(f.cases)
         IN IF Len(first_case.l) # 2 THEN UnpackError
            ELSE FrameResult(<<Evaluate(first_case.l[1], f.env),
                               GotValueForCond(first_case.l[2], remaining_cases, f.env)>>,
                             None)

\* a Cond.call whose continuation holds all the cases, the first one again
Cond_call_retries(f, value) ==
    IF Len(f.cases) = 0
    THEN Raise("ValueError", "none of the conditions were true")
    ELSE LET first_case == Head(f.cases)
         IN IF Len(first_case.l) # 2 THEN UnpackError
            ELSE FrameResult(<<GotValueForCond(first_case.l[2], f.cases, f.env),
                               Evaluate(first_case.l[1], f.env)>>, None)

\* Cond.call
Cond_call(f, value) ==
    IF Len(f.cases) = 0
    THEN Raise("ValueError", "none of the conditions were true")
    ELSE LET first_case == Head(f.cases)
             remaining_cases == Tail(f.cases)
         IN IF Len(first_case.l) # 2 THEN UnpackError
            ELSE FrameResult(<<GotValueForCond(first_case.l[2], remaining_cases, f.env),
                               Evaluate(first_case.l[1], f.env)>>, None)

\* a GotValueForCond.call that leaves the remaining cases on the stack
\* under the outcome it evaluates
GotValueForCond_call_keeps_cases(f, condition_value) ==
    IF IsNone(condition_value)
    THEN Raise("ValueError", "GotValueForCond didn't get a result")
    ELSE IF Truthy(condition_value)
    THEN FrameResult(<<Cond(f.remaining_cases, f.env),
                       Evaluate(f.outcome_if_true, f.env)>>, None)
    ELSE FrameResult(<<Cond(f.remaining_cases, f.env)>>, None)

\* GotValueForCond.call
GotValueForCond_call(f, condition_value) ==
    IF IsNone(condition_value)
    THEN Raise("ValueError", "GotValueForCond didn't get a result")
    ELSE IF Truthy(condition_value)
    THEN FrameResult(<<Evaluate(f.outcome_if_true, f.env)>>, None)
    ELSE FrameResult(<<Cond(f.remaining_cases, f.env)>>, None)

\* a Where.call that, out of bindings, leaves itself under the body's
\* Evaluate frame
Where_call_keeps_frame(f, value) ==
    IF Len(f.binding_exprs) = 0
    THEN FrameResult(<<Where(f.body_expr, f.binding_exprs, f.env),
                       Evaluate(f.body_expr, f.env)>>, None)
    ELSE LET first_binding_expr == Head(f.binding_exprs)
             remaining_binding_exprs == Tail(f.binding_exprs)
         IN IF is_atom(first_binding_expr)
            THEN Raise("ValueError", "this is an atom, not a list")
            ELSE IF Len(first_binding_expr.l) # 2 THEN UnpackError
            ELSE IF ~is_atom(first_binding_expr.l[1])
            THEN Raise("ValueError", "this is a list, not an atom")
            ELSE FrameResult(<<GotValueForWhere(f.body_expr, remaining_binding_exprs,
                                                f.env, first_binding_expr.l[1]),
                               Evaluate(first_binding_expr.l[2], f.env)>>, None)

\* Where.call
Where_call(f, value) ==
    IF Len(f.binding_exprs) = 0
    THEN FrameResult(<<Evaluate(f.body_expr, f.env)>>, None)
    ELSE LET first_binding_expr == Head(f.binding_exprs)
             remaining_binding_exprs == Tail(f.binding_exprs)
         IN IF is_atom(first_binding_expr)
            THEN Raise("ValueError", "this is an atom, not a list")
            ELSE IF Len(first_binding_expr.l) # 2 THEN UnpackError
            ELSE IF ~is_atom(first_binding_expr.l[1])
            THEN Raise("ValueError", "this is a list, not an atom")
            ELSE FrameResult(<<GotValueForWhere(f.body_expr, remaining_binding_exprs,
                                                f.env, first_binding_expr.l[1]),
                               Evaluate(first_binding_expr.l[2], f.env)>>, None)

\* a GotValueForWhere.call that puts the new binding behind the bindings
\* the environment already has
GotValueForWhere_call_binds_behind(f, new_value) ==
    IF IsNone(new_value)
    THEN Raise("ValueError", "GotValueForWhere didn't get a result")
    ELSE LET new_binding == Binding(f.new_binding_name, new_value)
             new_env == f.env \o <<new_binding>>
         IN FrameResult(<<Where(f.body_expr, f.binding_exprs, new_env)>>, None)

\* GotValueForWhere.call
GotValueForWhere_call(f, new_value) ==
    IF IsNone(new_value)
    THEN Raise("ValueError", "GotValueForWhere didn't get a result")
    ELSE LET new_binding == Binding(f.new_binding_name, new_value)
             new_env == extend_with(f.env, <<new_binding>>)
         IN FrameResult(<<Where(f.body_expr, f.binding_exprs, new_env)>>, None)

-----------------------------------------------------------------------------
(* symex.interpreters.machine: Evaluate, EvaluateForCall, GotValueForCall *)

\* an atom_value that looks every atom up
atom_value_always_lookup(e, fenv) == env_getitem(fenv, e)

\* atom_value
atom_value(e, fenv) ==
    IF is_data_atom(e) THEN e ELSE env_getitem(fenv, e)

\* Evaluate.call
Evaluate_call(f, value) ==
    IF is_atom(f.expr)
    THEN LET v == atom_value(f.expr, f.env)
         IN IF IsErr(v) THEN v ELSE FrameResult(<<>>, v)
    ELSE IF /\ Len(f.expr.l) >= 1
            /\ is_atom(f.expr.l[1])
            /\ f.expr.l[1].a \in machine_builtins
    THEN machine_builtin_call(f.expr.l[1].a, SList(Tail(f.expr.l)), f.env)
    ELSE FrameResult(<<EvaluateForCall(f.expr, <<>>, f.env)>>, None)

\* a closure branch that leaves a second frame on the stack
ApplyClosure_extra_frame(func, args) ==
    LET func_env == Closure_build_env(func, args)
    IN IF IsErr(func_env) THEN func_env
       ELSE FrameResult(<<Evaluate(func.body, func_env.env),
                          Evaluate(func.body, func_env.env)>>, None)

\* the closure branch of EvaluateForCall.call
ApplyClosure(func, args) ==
    LET func_env == Closure_build_env(func, args)
    IN IF IsErr(func_env) THEN func_env
       ELSE FrameResult(<<Evaluate(func.body, func_env.env)>>, None)

\* the primitive branch of EvaluateForCall.call
ApplyPrimitive(func, args) ==
    LET r == Primitive_apply(func, args)
    IN IF IsErr(r) THEN r ELSE FrameResult(<<>>, r)


\* an EvaluateForCall.call that pushes the continuation on top of the
\* element's Evaluate frame
EvaluateForCall_call_continuation_on_top(f, value) ==
    IF Len(f.values) < Len(f.expr.l)
    THEN LET next_expr == f.expr.l[Len(f.values) + 1]
         IN FrameResult(<<Evaluate(next_expr, f.env),
                          GotValueForCall(f.expr, f.values, f.env)>>, None)
    ELSE IF Len(f.values) = 0 THEN UnpackError
    ELSE LET func_expr == Head(f.values)
             args == Tail(f.values)
             func == Function_from_symex(func_expr)
         IN IF IsErr(func) THEN func
            ELSE IF IsPrimitive(func) THEN ApplyPrimitive(func, args)
            ELSE ApplyClosure(func, args)


\* an EvaluateForCall.call that takes the elements from the last to the
\* first
EvaluateForCall_call_right_to_left(f, value) ==
    IF Len(f.values) < Len(f.expr.l)
    THEN LET next_expr == f.expr.l[Len(f.expr.l) - Len(f.values)]
         IN FrameResult(<<GotValueForCall(f.expr, f.values, f.env),
                          Evaluate(next_expr, f.env)>>, None)
    ELSE IF Len(f.values) = 0 THEN UnpackError
    ELSE LET func_expr == Head(f.values)
             args == Tail(f.values)
             func == Function_from_symex(func_expr)
         IN IF IsErr(func) THEN func
            ELSE IF IsPrimitive(func) THEN ApplyPrimitive(func, args)
            ELSE ApplyClosure(func, args)

\* EvaluateForCall.call
EvaluateForCall_call(f, value) ==
    IF Len(f.values) < Len(f.expr.l)
    THEN LET next_expr == f.expr.l[Len(f.values) + 1]
         IN FrameResult(<<GotValueForCall(f.expr, f.values, f.env),
                          Evaluate(next_expr, f.env)>>, None)
    ELSE IF Len(f.values) = 0 THEN UnpackError
    ELSE LET func_expr == Head(f.values)
             args == Tail(f.values)
             func == Function_from_symex(func_expr)
         IN IF IsErr(func) THEN func
            ELSE IF IsPrimitive(func) THEN ApplyPrimitive(func, args)
            ELSE ApplyClosure(func, args)

\* GotValueForCall.call
GotValueForCall_call(f, new_value) ==
    IF IsNone(new_value)
    THEN Raise("ValueError", "GotValueForCall didn't get a result")
    ELSE FrameResult(<<EvaluateForCall(f.expr, f.values \o <<new_value>>, f.env)>>, None)

\* top_frame.call(last_result), dispatched on the frame's class
Frame_call(f, value) ==
    CASE f.k = "Evaluate" -> Evaluate_call(f, value)
      [] f.k = "EvaluateForCall" -> EvaluateForCall_call(f, value)
      [] f.k = "GotValueForCall" -> GotValueForCall_call(f, value)
      [] f.k = "Cond" -> Cond_call(f, value)
      [] f.k = "GotValueForCond" -> GotValueForCond_call(f, value)
      [] f.k = "Where" -> Where_call(f, value)
      [] f.k = "GotValueForWhere" -> GotValueForWhere_call(f, value)

-----------------------------------------------------------------------------
(* The direct evaluator: symex.symex eval_in, the special forms of           *)
(* simple_builtins.py, Function/Closure of interpreters/simple.py.  The      *)
(* parameter d counts the nested eval_in calls on the host call stack.       *)

\* the keys of the dict `builtins` of simple_builtins.py
simple_builtins == {"Quote", "Lambda", "Function", "And", "Or", "Cond", "Where"}

\* make_closure(params, name, body, env) of simple_builtins.py
simple_make_closure(params, name, body, cenv) ==
    IF \E i \in 1..Len(params.l) : ~is_atom(params.l[i])
    THEN Raise("ValueError", "this parameter isn't an atom")
    ELSE Closure_to_symex(Closure(params.l, name, body, cenv))

simple_Quote(arg_exprs, senv) ==
    IF Len(arg_exprs) # 1 THEN UnpackError ELSE arg_exprs[1]

simple_Lambda(arg_exprs, senv) ==
    IF Len(arg_exprs) = 2 /\ is_list(arg_exprs[1])
    THEN simple_make_closure(arg_exprs[1], None, arg_exprs[2], senv)
    ELSE Raise("ValueError", "this isn't a well-formed Lambda expression")

simple_Function_(arg_exprs, senv) ==
    IF Len(arg_exprs) = 3 /\ is_atom(arg_exprs[1]) /\ is_list(arg_exprs[2])
    THEN simple_make_closure(arg_exprs[2], arg_exprs[1], arg_exprs[3], senv)
    ELSE Raise("ValueError", "this isn't a well-formed Function expression")

\* Environment.from_symex / Binding.from_symex of symex.py
simple_Environment_from_symex(symex) ==
    IF is_atom(symex)
    THEN Raise("ValueError", "tried to treat an atom as an environment")
    ELSE LET one(b) == IF is_atom(b)
                       THEN Raise("ValueError", "tried to treat an atom as a binding")
                       ELSE IF Len(b.l) # 2 THEN UnpackError
                       ELSE IF ~is_atom(b.l[1])
                       THEN Raise("ValueError", "this is a list, not an atom")
                       ELSE Binding(b.l[1], b.l[2])
             bs == [i \in 1..Len(symex.l) |-> one(symex.l[i])]
         IN IF AnyErr(bs) THEN FirstErr(bs) ELSE [env |-> bs]

\* Closure.from_symex of interpreters/simple.py
simple_Closure_from_symex(symex) ==
    IF is_atom(symex)
    THEN Raise("ValueError", "tried to treat an atom as a closure")
    ELSE IF Len(symex.l) # 5 THEN UnpackError
    ELSE IF symex.l[1] # SAtom(":closure")
    THEN Raise("ValueError", "this list isn't a closure")
    ELSE IF is_atom(symex.l[2])
    THEN Raise("ValueError", "this is an atom, not a list")
    ELSE IF Len(symex.l[2].l) > 1 THEN UnpackError
    ELSE IF Len(symex.l[2].l) = 1 /\ ~is_atom(symex.l[2].l[1])
    THEN Raise("ValueError", "this is a list, not an atom")
    ELSE IF is_atom(symex.l[3])
    THEN Raise("ValueError", "this is an atom, not a list")
    ELSE IF \E i \in 1..Len(symex.l[3].l) : ~is_atom(symex.l[3].l[i])
    THEN Raise("ValueError", "this is a list, not an atom")
    ELSE LET e == simple_Environment_from_symex(symex.l[5])
         IN IF IsErr(e) THEN e
            ELSE Closure(symex.l[3].l,
                         IF Len(symex.l[2].l) = 1 THEN symex.l[2].l[1] ELSE None,
                         symex.l[4], e.env)

\* Function.from_symex of interpreters/simple.py
simple_Function_from_symex(symex) ==
    IF is_atom(symex)
    THEN Raise("ValueError", "tried to treat an atom as a function")
    ELSE IF Len(symex.l) = 0
    THEN Raise("IndexError", "list index out of range")
    ELSE IF symex.l[1] = SAtom(":closure") THEN simple_Closure_from_symex(symex)
    ELSE IF symex.l[1] = SAtom(":primitive") THEN Primitive_from_symex(symex)
    ELSE Raise("ValueError", "not a recognizable function")

\* SAtom.eval_in
SAtom_eval_in(e, senv) ==
    IF is_data_atom(e) THEN e
    ELSE IF env_contains(senv, e) THEN env_getitem(senv, e)
    ELSE Raise("NotImplementedError", "don't know how to evaluate this atom")

RECURSIVE simple_eval_in(_, _, _)
RECURSIVE And_loop(_, _, _, _)
RECURSIVE Or_loop(_, _, _, _)
RECURSIVE simple_Cond(_, _, _)
RECURSIVE Where_loop(_, _, _, _)

\* [exp.eval_in(env) for exp in self]: the values, or exceptions, in list
\* order (evaluation has no side effects, so the elements after a failing
\* one may be evaluated too: the comprehension raises the first exception)
eval_each(exprs, senv, d) ==
    [i \in 1..Len(exprs) |-> simple_eval_in(exprs[i], senv, d + 1)]

\* a pass of the And loop that goes on after a falsy value
And_step_no_short_circuit(v, rest, senv, d) ==
    CASE IsErr(v) -> v
      [] ~IsErr(v) -> And_loop(rest, senv, v, d)

\* And: one pass of the for loop, v the value of exp.eval_in(env)
And_step(v, rest, senv, d) ==
    CASE IsErr(v) -> v
      [] ~IsErr(v) /\ ~Truthy(v) -> v
      [] ~IsErr(v) /\ Truthy(v) -> And_loop(rest, senv, v, d)

\* And: the for loop, `res` the value of result so far
And_loop(exprs, senv, res, d) ==
    IF exprs = <<>> THEN res
    ELSE And_step(simple_eval_in(Head(exprs), senv, d + 1), Tail(exprs), senv, d)

And(arg_exprs, senv, d) == And_loop(arg_exprs, senv, TrueAtom, d)

\* a pass of the Or loop that goes on after a truthy value
Or_step_no_short_circuit(v, rest, senv, d) ==
    CASE IsErr(v) -> v
      [] ~IsErr(v) -> Or_loop(rest, senv, v, d)

\* Or: one pass of the for loop
Or_step(v, rest, senv, d) ==
    CASE IsErr(v) -> v
      [] ~IsErr(v) /\ Truthy(v) -> v
      [] ~IsErr(v) /\ ~Truthy(v) -> Or_loop(rest, senv, v, d)

\* Or: the for loop
Or_loop(exprs, senv, res, d) ==
    IF exprs = <<>> THEN res
    ELSE Or_step(simple_eval_in(Head(exprs), senv, d + 1), Tail(exprs), senv, d)

Or(arg_exprs, senv, d) == Or_loop(arg_exprs, senv, FalseAtom, d)

\* case SList((condition, action))
IsPair(pair) == is_list(pair) /\ Len(pair.l) = 2

\* Cond of simple_builtins.py: one pass of the for loop, c the value of the
\* condition
Cond_step(c, action, rest, senv, d) ==
    CASE IsErr(c) -> c
      [] ~IsErr(c) /\ Truthy(c) -> simple_eval_in(action, senv, d + 1)
      [] ~IsErr(c) /\ ~Truthy(c) -> simple_Cond(rest, senv, d)

\* Cond of simple_builtins.py: the for loop over the pairs
simple_Cond(pairs, senv, d) ==
    CASE pairs = <<>> -> Raise("ValueError", "none of the conditions were true")
      [] pairs # <<>> /\ ~IsPair(Head(pairs)) ->
            Raise("ValueError", "this isn't a well-formed condition")
      [] pairs # <<>> /\ IsPair(Head(pairs)) ->
            Cond_step(simple_eval_in(Head(pairs).l[1], senv, d + 1),
                      Head(pairs).l[2], Tail(pairs), senv, d)

\* case SList((SAtom() as name, value_expr))
IsBindingExpr(binding) ==
    is_list(binding) /\ Len(binding.l) = 2 /\ is_atom(binding.l[1])

\* a pass of the Where loop that puts the new binding behind the bindings
\* the environment already has
Where_step_binds_behind(r, name, body, rest, senv, d) ==
    IF IsErr(r) THEN r
    ELSE Where_loop(body, rest, senv \o <<Binding(name, r)>>, d)

\* Where of simple_builtins.py: one pass of the for loop, r the value of
\* value_expr
Where_step(r, name, body, rest, senv, d) ==
    IF IsErr(r) THEN r
    ELSE Where_loop(body, rest, extend_with(senv, <<Binding(name, r)>>), d)

\* Where of simple_builtins.py: the for loop over the bindings, then the body
Where_loop(body, bindings, senv, d) ==
    CASE bindings = <<>> -> simple_eval_in(body, senv, d + 1)
      [] bindings # <<>> /\ ~IsBindingExpr(Head(bindings)) ->
            Raise("ValueError", "this isn't a well-formed binding")
      [] bindings # <<>> /\ IsBindingExpr(Head(bindings)) ->
            Where_step(simple_eval_in(Head(bindings).l[2], senv, d + 1),
                       Head(bindings).l[1], body, Tail(bindings), senv, d)

simple_Where(arg_exprs, senv, d) ==
    IF Len(arg_exprs) = 0 THEN UnpackError
    ELSE Where_loop(arg_exprs[1], Tail(arg_exprs), senv, d)

\* BuiltinForms.dict[name](self[1:], env)
simple_builtin_call(name, arg_exprs, senv, d) ==
    CASE name = "Quote" -> simple_Quote(arg_exprs, senv)
      [] name = "Lambda" -> simple_Lambda(arg_exprs, senv)
      [] name = "Function" -> simple_Function_(arg_exprs, senv)
      [] name = "And" -> And(arg_exprs, senv, d)
      [] name = "Or" -> Or(arg_exprs, senv, d)
      [] name = "Cond" -> simple_Cond(arg_exprs, senv, d)
      [] name = "Where" -> simple_Where(arg_exprs, senv, d)

\* the bindings Closure.apply extends the captured environment with
apply_bindings(c, args) ==
    LET bindings == [i \in 1..Len(c.params) |-> Binding(c.params[i], args[i])]
    IN IF ~IsNone(c.name)
       THEN <<Binding(c.name, Closure_to_symex(c))>> \o bindings
       ELSE bindings

\* Closure.apply of interpreters/simple.py
Closure_apply(c, args, d) ==
    IF Len(args) # Len(c.params)
    THEN Raise("ValueError", "closure got wrong number of arguments")
    ELSE simple_eval_in(c.body, extend_with(c.env, apply_bindings(c, args)), d + 1)

\* func.apply(args), func what Function.from_symex returned or raised
Function_apply(func, args, d) ==
    CASE IsErr(func) -> func
      [] IsPrimitive(func) -> Primitive_apply(func, args)
      [] IsClosure(func) -> Closure_apply(func, args, d)

\* Symex.apply: Function.from_symex(self).apply(args)
Symex_apply(func_expr, args, d) ==
    Function_apply(simple_Function_from_symex(func_expr), args, d)

\* SList.eval_in, the else branch: values the outcome of the comprehension
apply_values(values, d) ==
    IF AnyErr(values) THEN FirstErr(values)
    ELSE Symex_apply(Head(values), Tail(values), d)

\* self[0].is_atom and self[0].as_atom.text in BuiltinForms.dict
IsBuiltinForm(e) == is_atom(e.l[1]) /\ e.l[1].a \in simple_builtins

\* SList.eval_in
SList_eval_in(e, senv, d) ==
    CASE Len(e.l) = 0 -> Raise("ValueError", "tried to evaluate an empty list")
      [] Len(e.l) > 0 /\ IsBuiltinForm(e) ->
            simple_builtin_call(e.l[1].a, Tail(e.l), senv, d)
      [] Len(e.l) > 0 /\ ~IsBuiltinForm(e) ->
            apply_values(eval_each(e.l, senv, d), d)

\* Symex.eval_in, dispatched on the class; the host call stack is finite
simple_eval_in(e, senv, d) ==
    CASE d > MaxDepth -> Raise("RecursionError", "maximum recursion depth exceeded")
      [] d <= MaxDepth /\ is_atom(e) -> SAtom_eval_in(e, senv)
      [] d <= MaxDepth /\ is_list(e) -> SList_eval_in(e, senv, d)

-----------------------------------------------------------------------------
(* Input expressions.  A(t) and L(<<...>>) write down what Symex.parse       *)
(* returns for an atom and for a parenthesized list.                         *)

A(t) == SAtom(t)
L(items) == SList(items)

\* n copies of :a
Elems(n) == [i \in 1..n |-> A(":a")]

\* the programs of tests/test_interpreters.py
TestQuote == L(<<A("Quote"), A("test")>>)
TestTail == L(<<A("Tail"), L(<<A("Quote"), L(<<A("test")>>)>>)>>)
TestDataAtom == A(":test")
TestEmptyWhere == L(<<A("Where"), A(":test")>>)
TestSimpleWhere == L(<<A("Where"), A("color"), L(<<A("color"), A(":blue")>>)>>)
TestExpressionWhere ==
    L(<<A("Where"), A("list"),
        L(<<A("list"), L(<<A("Head"), L(<<A("Quote"), L(<<A("test")>>)>>)>>)>>)>>)
TestNestedWhere ==
    L(<<A("Where"),
        L(<<A("Where"), A("color"), L(<<A("flavor"), A(":raspberry")>>)>>),
        L(<<A("color"), A(":blue")>>)>>)
TestHidingWhere ==
    L(<<A("Where"),
        L(<<A("Where"), A("color"), L(<<A("color"), A(":yellow")>>)>>),
        L(<<A("color"), A(":blue")>>)>>)
TestSimpleFunction ==
    L(<<L(<<A("Function"), A("Test"), L(<<A("x"), A("f")>>), L(<<A("f"), A("x")>>)>>),
        L(<<A("List"), A(":hello")>>), A("Head")>>)
TestSimpleLambda ==
    L(<<L(<<A("Lambda"), L(<<A("x"), A("f")>>), L(<<A("f"), A("x")>>)>>),
        L(<<A("List"), A(":hello")>>), A("Head")>>)
TestSimpleCond == L(<<A("Cond"), L(<<A(":true"), L(<<A("Quote"), A("test")>>)>>)>>)
QuineLambda ==
    L(<<A("Lambda"), L(<<A("expr")>>),
        L(<<A("List"), A("expr"),
            L(<<A("List"), L(<<A("Quote"), A("Quote")>>), A("expr")>>)>>)>>)
TestQuine == L(<<QuineLambda, L(<<A("Quote"), QuineLambda>>)>>)

\* test_laugh, over a list of n elements
LaughFunction ==
    L(<<A("Function"), A("Laugh"), L(<<A("list")>>),
        L(<<A("Cond"),
            L(<<L(<<A("="), A("list"), A("Nil")>>), A("Nil")>>),
            L(<<A(":true"),
                L(<<A("Cons"), A(":ha"),
                    L(<<A("Laugh"), L(<<A("Tail"), A("list")>>)>>)>>)>>)>>)>>)
Laugh(n) ==
    L(<<A("Where"),
        L(<<A("Laugh"), L(<<A("List")>> \o Elems(n))>>),
        L(<<A("Laugh"), LaughFunction>>)>>)

\* a named function that calls itself in tail position, as the action of a
\* Cond case: it walks down a list of n elements and returns :done
LoopFunction ==
    L(<<A("Function"), A("Loop"), L(<<A("list")>>),
        L(<<A("Cond"),
            L(<<L(<<A("="), A("list"), A("Nil")>>), A(":done")>>),
            L(<<A(":true"), L(<<A("Loop"), L(<<A("Tail"), A("list")>>)>>)>>)>>)>>)
TailLoop(n) ==
    L(<<A("Where"),
        L(<<A("Loop"), L(<<A("List")>> \o Elems(n))>>),
        L(<<A("Loop"), LoopFunction>>)>>)

\* the same walk with the self-call as the body of a Where
WhereLoopFunction ==
    L(<<A("Function"), A("Loop"), L(<<A("list")>>),
        L(<<A("Cond"),
            L(<<L(<<A("="), A("list"), A("Nil")>>), A(":done")>>),
            L(<<A(":true"),
                L(<<A("Where"), L(<<A("Loop"), A("rest")>>),
                    L(<<A("rest"), L(<<A("Tail"), A("list")>>)>>)>>)>>)>>)>>)
TailWhereLoop(n) ==
    L(<<A("Where"),
        L(<<A("Loop"), L(<<A("List")>> \o Elems(n))>>),
        L(<<A("Loop"), WhereLoopFunction>>)>>)

TestPrograms ==
    {TestQuote, TestTail, TestDataAtom, TestEmptyWhere, TestSimpleWhere,
     TestExpressionWhere, TestNestedWhere, TestHidingWhere, TestSimpleFunction,
     TestSimpleLambda, TestSimpleCond, TestQuine}

LaughPrograms == {Laugh(n) : n \in 0..MaxN}
TailPrograms ==
    {TailLoop(n) : n \in 0..MaxTail} \cup {TailWhereLoop(n) : n \in 0..MaxTail}

IdLambda == L(<<A("Lambda"), L(<<A("x")>>), A("x")>>)

\* inputs on which evaluation fails
FailingPrograms ==
    {\* unbound variable
     A("y"), L(<<A("Head"), A("y")>>), L(<<A("y"), A(":a")>>),
     \* evaluation of the empty list
     L(<<>>), L(<<A("List"), L(<<>>)>>),
     \* malformed special forms
     L(<<A("Quote")>>), L(<<A("Quote"), A("a"), A("b")>>),
     L(<<A("Lambda"), A("x"), A(":a")>>), L(<<A("Lambda"), L(<<A("x")>>)>>),
     L(<<A("Lambda"), L(<<L(<<A("x")>>)>>), A(":a")>>),
     L(<<A("Function"), L(<<A("f")>>), L(<<A("x")>>), A("x")>>),
     L(<<A("Function"), A("f"), A("x"), A("x")>>),
     L(<<A("Function"), A("f"), L(<<A("x")>>)>>),
     L(<<A("Cond"), A(":true")>>), L(<<A("Cond"), L(<<A(":true")>>)>>),
     L(<<A("Cond"), L(<<A(":false"), A(":a")>>), A("foo")>>),
     L(<<A("Cond"), L(<<A(":true"), A(":a")>>), A("foo")>>),
     L(<<A("Cond"), L(<<A(":true"), A(":a")>>), L(<<A(":b")>>)>>),
     L(<<A("Where")>>), L(<<A("Where"), A(":a"), A("x")>>),
     L(<<A("Where"), A(":a"), L(<<A("x")>>)>>),
     L(<<A("Where"), A(":a"), L(<<L(<<A("x")>>), A(":b")>>)>>),
     L(<<A("Where"), A(":a"), L(<<L(<<A("x")>>), A("y")>>)>>),
     L(<<A("Where"), A(":a"), L(<<A("x"), A(":b"), A(":c")>>)>>),
     \* closure arity mismatch
     L(<<IdLambda>>), L(<<IdLambda, A(":a"), A(":b")>>),
     L(<<L(<<A("Function"), A("F"), L(<<>>), A(":a")>>), A(":b")>>),
     \* non-function in call position
     L(<<A(":a")>>), L(<<A(":a"), A(":b")>>), L(<<A("Nil")>>),
     L(<<A("Nil"), A(":a")>>), L(<<L(<<A("List")>>)>>),
     L(<<L(<<A("Quote"), L(<<A("foo")>>)>>)>>),
     L(<<L(<<A("Quote"), L(<<A(":primitive")>>)>>)>>),
     L(<<L(<<A("Quote"), L(<<A(":primitive"), A("Bogus")>>)>>)>>),
     L(<<L(<<A("Quote"), L(<<A(":closure")>>)>>)>>),
     L(<<L(<<A("Quote"),
             L(<<A(":closure"), L(<<>>), L(<<>>), A(":a"), A(":b")>>)>>)>>),
     \* Cond with no truthy condition
     L(<<A("Cond")>>), L(<<A("Cond"), L(<<A(":false"), A(":a")>>)>>),
     L(<<A("Cond"), L(<<L(<<A("Not"), A(":a")>>), A(":a")>>),
                    L(<<A(":false"), A(":b")>>)>>),
     \* failing primitives
     L(<<A("Head"), A("Nil")>>), L(<<A("Tail"), A("Nil")>>),
     L(<<A("Head"), A(":a")>>), L(<<A("Cons"), A(":a"), A(":b")>>),
     L(<<A("Not")>>), L(<<A("Error")>>), L(<<A("Error"), A(":x")>>),
     L(<<A("Is-Data-Atom")>>), L(<<A("Head")>>), L(<<A("Cons"), A(":a")>>)}

\* programs built on And and Or
AndOrPrograms ==
    {L(<<A("And")>>), L(<<A("Or")>>),
     L(<<A("And"), A(":a"), A(":b")>>), L(<<A("And"), A(":false"), A("y")>>),
     L(<<A("And"), A("Nil"), A(":a")>>), L(<<A("And"), A(":a"), A("Nil")>>),
     L(<<A("Or"), A(":a"), A("y")>>), L(<<A("Or"), A(":false"), A(":false")>>),
     L(<<A("Or"), A("Nil"), A(":a")>>), L(<<A("Or"), A(":false"), A("Nil")>>),
     L(<<A("Cond"), L(<<L(<<A("And"), A(":a"), A(":false")>>), A(":a")>>),
                    L(<<L(<<A("Or"), A(":false"), A(":b")>>), A(":b")>>)>>)}

\* the values conditions are given: :false, other atoms, lists
TruthValues ==
    {A(":false"), A(":true"), A(":"), A(":x"), A("false"), L(<<>>),
     L(<<A(":false")>>)}
\* programs that branch on the value of the condition c
CondOn(c) == L(<<A("Cond"), L(<<c, A(":a")>>), L(<<A(":true"), A(":b")>>)>>)
AndOn(c) == L(<<A("And"), c, A(":a")>>)
OrOn(c) == L(<<A("Or"), c, A(":a")>>)
Quoted(v) == L(<<A("Quote"), v>>)
TruthinessPrograms ==
    {CondOn(Quoted(v)) : v \in TruthValues}
    \cup {AndOn(Quoted(v)) : v \in TruthValues}
    \cup {OrOn(Quoted(v)) : v \in TruthValues}
    \cup {CondOn(A("Nil")), AndOn(A("Nil")), OrOn(A("Nil")),
          CondOn(L(<<A("List")>>)), CondOn(L(<<A("Not"), A(":a")>>))}

\* Where forms: bindings that use earlier ones, a name bound twice, value
\* expressions that fail, no bindings, and Where nested in a body
WhereProgram(k) ==
    CASE k = "order" ->
            L(<<A("Where"), L(<<A("List"), A("p"), A("q")>>),
                L(<<A("p"), A(":one")>>),
                L(<<A("q"), L(<<A("List"), A("p")>>)>>),
                L(<<A("p"), A(":two")>>)>>)
      [] k = "left_to_right" ->
            L(<<A("Where"), A(":a"),
                L(<<A("p"), L(<<A("Head"), A("Nil")>>)>>),
                L(<<A("q"), L(<<A("Tail"), A("Nil")>>)>>)>>)
      [] k = "later_unseen" ->
            L(<<A("Where"), A(":a"),
                L(<<A("p"), A("q")>>), L(<<A("q"), A(":one")>>)>>)
      [] k = "empty" -> L(<<A("Where"), A("y")>>)
      [] k = "inner_sees_outer" ->
            L(<<A("Where"),
                L(<<A("Where"), L(<<A("List"), A("p"), A("q")>>),
                    L(<<A("q"), L(<<A("List"), A("p")>>)>>)>>),
                L(<<A("p"), A(":one")>>)>>)
      [] k = "inner_hides_outer" ->
            L(<<A("Where"),
                L(<<A("List"), L(<<A("Where"), A("p"), L(<<A("p"), A(":two")>>)>>),
                    A("p")>>),
                L(<<A("p"), A(":one")>>)>>)

\* Cond forms: what follows the first truthy case, the action of a falsy
\* case, conditions that fail, and no truthy condition
CondProgram(k) ==
    CASE k = "then_failing_case" ->
            L(<<A("Cond"), L(<<A(":true"), A(":a")>>),
                L(<<L(<<A("Head"), A("Nil")>>), L(<<A("Tail"), A("Nil")>>)>>)>>)
      [] k = "then_short_case" ->
            L(<<A("Cond"), L(<<A(":true"), A(":a")>>), L(<<A(":b")>>)>>)
      [] k = "then_atom" ->
            L(<<A("Cond"), L(<<A(":true"), A(":a")>>), A("foo")>>)
      [] k = "falsy_action" ->
            L(<<A("Cond"), L(<<A(":false"), L(<<A("Head"), A("Nil")>>)>>),
                L(<<A("Nil"), A(":a")>>), L(<<A(":true"), A(":b")>>)>>)
      [] k = "left_to_right" ->
            L(<<A("Cond"), L(<<L(<<A("Head"), A("Nil")>>), A(":a")>>),
                L(<<L(<<A("Tail"), A("Nil")>>), A(":b")>>)>>)
      [] k = "none_truthy" ->
            L(<<A("Cond"), L(<<A(":false"), A(":a")>>),
                L(<<L(<<A("Not"), A(":a")>>), A(":b")>>)>>)
      [] k = "no_cases" -> L(<<A("Cond")>>)

\* a call of the primitive named f on the quoted values args
ListProgram(f, args) == L(<<A(f)>> \o [i \in DOMAIN args |-> Quoted(args[i])])

\* Lambda and Function forms: closures applied where the caller binds the
\* closure's free variable differently, or alone binds it; a parameter named
\* as a captured variable; and malformed forms
ClosureProgram(k) ==
    CASE k \in {"lambda_free", "function_free"} ->
            L(<<A("Where"),
                L(<<A("Where"), L(<<A("f"), A(":x")>>), L(<<A("v"), A(":two")>>)>>),
                L(<<A("v"), A(":one")>>),
                L(<<A("f"),
                    IF k = "lambda_free"
                    THEN L(<<A("Lambda"), L(<<A("u")>>), A("v")>>)
                    ELSE L(<<A("Function"), A("g"), L(<<A("u")>>), A("v")>>)>>)>>)
      [] k = "caller_only" ->
            L(<<A("Where"),
                L(<<A("Where"), L(<<A("f"), A(":x")>>), L(<<A("w"), A(":two")>>)>>),
                L(<<A("f"), L(<<A("Lambda"), L(<<A("u")>>), A("w")>>)>>)>>)
      [] k = "param_hides" ->
            L(<<A("Where"),
                L(<<L(<<A("Lambda"), L(<<A("v")>>), A("v")>>), A(":x")>>),
                L(<<A("v"), A(":one")>>)>>)
      [] k = "params_atom" -> L(<<A("Lambda"), A("x"), A(":a")>>)
      [] k = "param_list" -> L(<<A("Lambda"), L(<<L(<<A("x")>>)>>), A(":a")>>)
      [] k = "name_list" ->
            L(<<A("Function"), L(<<A("f")>>), L(<<A("x")>>), A("x")>>)
      [] k = "function_params_atom" ->
            L(<<A("Function"), A("f"), A("x"), A("x")>>)
      [] k = "function_param_list" ->
            L(<<A("Function"), A("f"), L(<<L(<<A("x")>>)>>), A("x")>>)

\* the operands And and Or are given: expressions whose value is :false,
\* a truthy atom, the empty list (truthy too), and one that fails
Operands ==
    {Quoted(A(":false")), Quoted(A(":a")), Quoted(L(<<>>)),
     L(<<A("Head"), A("Nil")>>)}

Programs ==
    TestPrograms \cup LaughPrograms \cup TailPrograms \cup FailingPrograms
    \cup AndOrPrograms \cup TruthinessPrograms
    \cup {A(":a"), A("Nil")}
    \cup {ListProgram(f, args) :
             f \in {"Not", "=", "Cons", "Head", "Tail", "List", "Error",
                    "Is-Data-Atom"},
             args \in UNION {[1..n -> {A(":a"), L(<<>>)}] : n \in 0..MaxN}}

    \cup {ListProgram(f, <<v>>) : f \in {"Head", "Tail"}, v \in TruthValues}
    \cup {L(<<A(f), ListProgram("Cons", <<h, t>>)>>) :
             f \in {"Head", "Tail"}, h \in TruthValues, t \in TruthValues}
    \cup {ClosureProgram(k) :
             k \in {"lambda_free", "function_free", "caller_only", "param_hides",
                    "params_atom", "param_list", "name_list",
                    "function_params_atom", "function_param_list"}}
    \cup {L(<<A(head)>> \o ops) :
             head \in {"And", "Or"}, ops \in UNION {[1..n -> Operands] : n \in 0..MaxN}}
    \cup {CondProgram(k) : k \in {"then_failing_case", "then_short_case",
                                  "then_atom", "falsy_action", "left_to_right",
                                  "none_truthy", "no_cases"}}
    \cup {WhereProgram(k) : k \in {"order", "left_to_right", "later_unseen",
                                   "empty", "inner_sees_outer",
                                   "inner_hides_outer"}}

\* the environments evaluation starts in: the bootstrap environment, and one
\* that extends it with bindings for a variable and for special-form names
ShadowingEnv ==
    extend_with(primitive_env,
                <<Binding(A("y"), A(":blue")),
                  Binding(A("Quote"), L(<<A(":primitive"), A("List")>>)),
                  Binding(A("And"), L(<<A(":primitive"), A("List")>>)),
                  Binding(A(":a"), A(":b"))>>)
Envs == {primitive_env, ShadowingEnv}

-----------------------------------------------------------------------------
(* The evaluators as a state machine *)

TypesIdle ==
    /\ heap = <<>>
    /\ held = <<>>
    /\ op = [name |-> "none"]

Init ==
    /\ expr \in Programs
    /\ env \in Envs
    /\ pc = "idle"
    /\ call_stack = <<>>
    /\ last_result = None
    /\ direct = None
    /\ result = None
    /\ TypesIdle

\* the direct evaluator: Symex.eval_in(env), one call
SimpleEvalIn ==
    /\ pc = "idle"
    /\ direct' = simple_eval_in(expr, env, 0)
    /\ pc' = "ready"
    /\ UNCHANGED <<expr, env, call_stack, last_result, result>>
    /\ UNCHANGED typesVars

\* Machine.eval_in up to the while loop
MachineEvalIn ==
    /\ pc = "ready"
    /\ last_result' = None
    /\ call_stack' = <<Evaluate(expr, env)>>
    /\ pc' = "loop"
    /\ UNCHANGED <<expr, env, direct, result>>
    /\ UNCHANGED typesVars

Top == call_stack[Len(call_stack)]
Popped == SubSeq(call_stack, 1, Len(call_stack) - 1)

\* one iteration of the while loop: pop the top frame, call it with
\* last_result, push the frames it returns and record its result; an
\* exception leaves eval_in
RunTop ==
    LET frame_result == Frame_call(Top, last_result)
    IN IF IsErr(frame_result)
       THEN /\ pc' = "error"
            /\ result' = frame_result
            /\ call_stack' = Popped
            /\ UNCHANGED last_result
       ELSE /\ call_stack' = Popped \o frame_result.new_frames
            /\ last_result' = frame_result.result_expr
            /\ UNCHANGED <<pc, result>>

\* the loop is running and the frame on top of the stack is of class k
TopIs(k) == pc = "loop" /\ call_stack # <<>> /\ Top.k = k

StepEvaluate ==
    /\ TopIs("Evaluate")
    /\ RunTop
    /\ UNCHANGED <<expr, env, direct>>
    /\ UNCHANGED typesVars

StepEvaluateForCall ==
    /\ TopIs("EvaluateForCall")
    /\ RunTop
    /\ UNCHANGED <<expr, env, direct>>
    /\ UNCHANGED typesVars

StepGotValueForCall ==
    /\ TopIs("GotValueForCall")
    /\ RunTop
    /\ UNCHANGED <<expr, env, direct>>
    /\ UNCHANGED typesVars

StepCond ==
    /\ TopIs("Cond")
    /\ RunTop
    /\ UNCHANGED <<expr, env, direct>>
    /\ UNCHANGED typesVars

StepGotValueForCond ==
    /\ TopIs("GotValueForCond")
    /\ RunTop
    /\ UNCHANGED <<expr, env, direct>>
    /\ UNCHANGED typesVars

StepWhere ==
    /\ TopIs("Where")
    /\ RunTop
    /\ UNCHANGED <<expr, env, direct>>
    /\ UNCHANGED typesVars

StepGotValueForWhere ==
    /\ TopIs("GotValueForWhere")
    /\ RunTop
    /\ UNCHANGED <<expr, env, direct>>
    /\ UNCHANGED typesVars

\* Machine.eval_in after the while loop
LoopExit ==
    /\ pc = "loop"
    /\ call_stack = <<>>
    /\ IF IsNone(last_result)
       THEN /\ pc' = "error"
            /\ result' = Raise("ValueError", "the last stack frame didn't return a result")
       ELSE /\ pc' = "done"
            /\ result' = last_result
    /\ UNCHANGED <<expr, env, call_stack, last_result, direct>>
    /\ UNCHANGED typesVars

Next ==
    \/ SimpleEvalIn
    \/ MachineEvalIn
    \/ StepEvaluate
    \/ StepEvaluateForCall
    \/ StepGotValueForCall
    \/ StepCond
    \/ StepGotValueForCond
    \/ StepWhere
    \/ StepGotValueForWhere
    \/ LoopExit

Spec == Init /\ [][Next]_vars
\* the while loop of Machine.eval_in goes on as long as the stack has a
\* frame, and eval_in returns or raises once it has none
LiveSpec ==
    /\ Spec
    /\ WF_vars(\/ StepEvaluate
               \/ StepEvaluateForCall
               \/ StepGotValueForCall
               \/ StepCond
               \/ StepGotValueForCond
               \/ StepWhere
               \/ StepGotValueForWhere
               \/ LoopExit)


-----------------------------------------------------------------------------
(* The evaluators compared *)

\* C1: on a well-formed expression, one the direct evaluator evaluates to a
\* value within its recursion depth, the machine evaluator returns a
\* structurally equal value.
C1_Equivalence ==
    (pc \in {"done", "error"} /\ expr \notin FailingPrograms /\ ~IsErr(direct))
        => result = direct

\* C2: while the machine evaluates a program whose named closure calls itself
\* in tail position, as the outcome of a Cond case or as the body of a Where,
\* the work stack never holds more than three frames, however many elements
\* the list it recurses over has.
C2_TailCallStackBounded ==
    expr \in TailPrograms => Len(call_stack) <= 3

\* the last of MaxTail recursive applications, its list argument exhausted,
\* at the greatest stack depth
C2_Witness ==
    /\ pc = "loop"
    /\ expr = TailLoop(MaxTail)
    /\ Len(call_stack) = 3
    /\ Top.k = "Evaluate"
    /\ env_contains(Top.env, A("list"))
    /\ env_getitem(Top.env, A("list")) = L(<<>>)

\* C3: on a failing input both evaluators raise, and raise the same class of
\* exception.
C3_SameErrorKind ==
    (pc \in {"done", "error"} /\ expr \in FailingPrograms)
        => /\ IsErr(direct)
           /\ IsErr(result)
           /\ direct.err = result.err

\* C4: the machine never evaluates as an ordinary call a list whose head is
\* one of the names the direct evaluator treats as special forms (Quote,
\* Lambda, Function, And, Or, Cond, Where).
C4_SameSpecialForms ==
    \A i \in 1..Len(call_stack) :
        call_stack[i].k \in {"EvaluateForCall", "GotValueForCall"}
            => ~(/\ Len(call_stack[i].expr.l) >= 1
                 /\ is_atom(call_stack[i].expr.l[1])
                 /\ call_stack[i].expr.l[1].a \in simple_builtins)

\* C5: a value is falsy iff it is the atom :false; every other atom and every
\* list, the empty one included, is truthy.  GotValueForCond goes on to the
\* outcome unless the condition's value is :false, and then to the remaining
\* cases; Cond, And and Or of the direct evaluator, and Cond of the machine,
\* take a condition whose value is the empty list (Nil) as true.
C5_Truthiness ==
    /\ [](\A v \in TruthValues :
            /\ Truthy(v) <=> v # A(":false")
            /\ (pc # "idle" /\ expr = CondOn(Quoted(v)))
                  => direct = IF v = A(":false") THEN A(":b") ELSE A(":a")
            /\ (pc # "idle" /\ expr = AndOn(Quoted(v)))
                  => direct = IF v = A(":false") THEN v ELSE A(":a")
            /\ (pc # "idle" /\ expr = OrOn(Quoted(v)))
                  => direct = IF v = A(":false") THEN A(":a") ELSE v
            /\ (pc \in {"done", "error"} /\ expr = CondOn(Quoted(v)))
                  => result = IF v = A(":false") THEN A(":b") ELSE A(":a"))
    /\ []((pc # "idle" /\ expr = CondOn(A("Nil"))) => direct = A(":a"))
    /\ []((pc # "idle" /\ expr = AndOn(A("Nil"))) => direct = A(":a"))
    /\ []((pc # "idle" /\ expr = OrOn(A("Nil"))) => direct = L(<<>>))
    /\ []((pc \in {"done", "error"} /\ expr = CondOn(A("Nil"))) => result = A(":a"))
    /\ [][(TopIs("GotValueForCond") /\ ~IsNone(last_result))
             => call_stack' = Popped \o
                   <<IF last_result = A(":false")
                     THEN Cond(Top.remaining_cases, Top.env)
                     ELSE Evaluate(Top.outcome_if_true, Top.env)>>]_vars

\* the machine has taken the first case of a Cond whose condition, Nil,
\* evaluated to the empty list
C5_Witness ==
    /\ pc = "done"
    /\ expr = CondOn(A("Nil"))
    /\ env_getitem(env, A("Nil")) = L(<<>>)
    /\ result = A(":a")
    /\ direct = A(":a")

\* C11: Where evaluates the value expressions left to right, each in the
\* environment extended with the bindings before it, then the body in the
\* fully extended environment; of two bindings of one name the later one is
\* the one the body and the later value expressions see; with no bindings
\* the body is evaluated in the environment unchanged.
C11_WhereSequentialBinding ==
    /\ [](pc # "idle" =>
            /\ expr = WhereProgram("order")
                  => direct = L(<<A(":two"), L(<<A(":one")>>)>>)
            /\ expr = WhereProgram("left_to_right")
                  => direct = Raise("ValueError", "the Head function got an empty list")
            /\ expr = WhereProgram("later_unseen") /\ ~env_contains(env, A("q"))
                  => IsErr(direct)
            /\ expr = WhereProgram("empty") /\ env_contains(env, A("y"))
                  => direct = env_getitem(env, A("y"))
            /\ expr = WhereProgram("empty") /\ ~env_contains(env, A("y"))
                  => IsErr(direct))
    /\ [](pc \in {"done", "error"} =>
            /\ expr = WhereProgram("order")
                  => result = L(<<A(":two"), L(<<A(":one")>>)>>)
            /\ expr = WhereProgram("left_to_right")
                  => result = Raise("ValueError", "the Head function got an empty list")
            /\ expr = WhereProgram("later_unseen") /\ ~env_contains(env, A("q"))
                  => IsErr(result)
            /\ expr = WhereProgram("empty") /\ env_contains(env, A("y"))
                  => result = env_getitem(env, A("y"))
            /\ expr = WhereProgram("empty") /\ ~env_contains(env, A("y"))
                  => IsErr(result))
    /\ [][/\ (TopIs("Where") /\ Top.binding_exprs = <<>>)
                => call_stack' = Popped \o <<Evaluate(Top.body_expr, Top.env)>>
          /\ (TopIs("Where") /\ Top.binding_exprs # <<>> /\ pc' = "loop")
                => call_stack' = Popped \o
                      <<GotValueForWhere(Top.body_expr, Tail(Top.binding_exprs),
                                         Top.env, Head(Top.binding_exprs).l[1]),
                        Evaluate(Head(Top.binding_exprs).l[2], Top.env)>>
          /\ (TopIs("GotValueForWhere") /\ pc' = "loop")
                => call_stack' = Popped \o
                      <<Where(Top.body_expr, Top.binding_exprs,
                              <<Binding(Top.new_binding_name, last_result)>>
                                  \o Top.env)>>]_vars

\* the machine has evaluated a Where whose second value expression uses the
\* first binding and whose third binding binds the first name again
C11_Witness ==
    /\ pc = "done"
    /\ expr = WhereProgram("order")
    /\ result = L(<<A(":two"), L(<<A(":one")>>)>>)
    /\ direct = result

\* C12: in the body of an inner Where a name bound by an enclosing Where is
\* visible, unless the inner Where binds the same name, and then the inner
\* binding hides the outer one, in the inner Where only; in both evaluators.
C12_NestedWhereScoping ==
    /\ pc # "idle" =>
          /\ expr = TestNestedWhere => direct = A(":blue")
          /\ expr = TestHidingWhere => direct = A(":yellow")
          /\ expr = WhereProgram("inner_sees_outer")
                => direct = L(<<A(":one"), L(<<A(":one")>>)>>)
          /\ expr = WhereProgram("inner_hides_outer")
                => direct = L(<<A(":two"), A(":one")>>)
    /\ pc \in {"done", "error"} =>
          /\ expr = TestNestedWhere => result = A(":blue")
          /\ expr = TestHidingWhere => result = A(":yellow")
          /\ expr = WhereProgram("inner_sees_outer")
                => result = L(<<A(":one"), L(<<A(":one")>>)>>)
          /\ expr = WhereProgram("inner_hides_outer")
                => result = L(<<A(":two"), A(":one")>>)

\* both evaluators have evaluated test_hiding_where: the inner binding of
\* color hides the outer one
C12_Witness ==
    /\ pc = "done"
    /\ expr = TestHidingWhere
    /\ result = A(":yellow")
    /\ direct = A(":yellow")

\* C13: Cond evaluates the conditions left to right and returns the value of
\* the action of the first truthy one, whatever cases follow it; it evaluates
\* no later condition or action and no action of a falsy case; with no
\* truthy condition, and with no cases, it raises the no-matching-condition
\* error; in both evaluators.
C13_CondFirstTruthy ==
    \A k \in {"then_failing_case", "then_short_case", "then_atom", "falsy_action",
              "left_to_right", "none_truthy", "no_cases"} :
        LET expected ==
                CASE k \in {"then_failing_case", "then_short_case", "then_atom",
                            "falsy_action"} -> A(":a")
                  [] k = "left_to_right" ->
                        Raise("ValueError", "the Head function got an empty list")
                  [] k \in {"none_truthy", "no_cases"} ->
                        Raise("ValueError", "none of the conditions were true")
        IN expr = CondProgram(k) =>
              /\ pc # "idle" => direct = expected
              /\ pc \in {"done", "error"} => result = expected

\* C14: And evaluates its operands left to right and stops at the first one
\* that fails or whose value is falsy, returning that value, :false, without
\* evaluating the operands after it; when every operand is truthy it returns
\* the value of the last; with no operands it returns :true.
C14_AndShortCircuit ==
    (/\ pc # "idle"
     /\ is_list(expr)
     /\ Len(expr.l) >= 1
     /\ expr.l[1] = A("And")
     /\ \A i \in 2..Len(expr.l) : expr.l[i] \in Operands)
        => LET ops == Tail(expr.l)
               stops == {i \in 1..Len(ops) :
                            ops[i].l[1] # A("Quote") \/ ops[i].l[2] = A(":false")}
           IN /\ (stops = {} /\ ops = <<>>) => direct = A(":true")
              /\ (stops = {} /\ ops # <<>>) => direct = ops[Len(ops)].l[2]
              /\ \A i \in stops :
                    (\A j \in stops : i <= j) =>
                        direct = IF ops[i].l[1] = A("Quote") THEN A(":false")
                                 ELSE Raise("ValueError",
                                            "the Head function got an empty list")

\* And of a truthy operand, a falsy one and one that fails if evaluated
C14_Witness ==
    /\ pc = "ready"
    /\ expr = L(<<A("And"), Quoted(A(":a")), Quoted(A(":false")),
                  L(<<A("Head"), A("Nil")>>)>>)
    /\ direct = A(":false")

\* C15: Or evaluates its operands left to right and stops at the first one
\* that fails or whose value is truthy, returning that value without
\* evaluating the operands after it; with no operands, or when every operand
\* is falsy, it returns :false.
C15_OrShortCircuit ==
    (/\ pc # "idle"
     /\ is_list(expr)
     /\ Len(expr.l) >= 1
     /\ expr.l[1] = A("Or")
     /\ \A i \in 2..Len(expr.l) : expr.l[i] \in Operands)
        => LET ops == Tail(expr.l)
               stops == {i \in 1..Len(ops) :
                            ops[i].l[1] # A("Quote") \/ ops[i].l[2] # A(":false")}
           IN /\ stops = {} => direct = A(":false")
              /\ \A i \in stops :
                    (\A j \in stops : i <= j) =>
                        direct = IF ops[i].l[1] = A("Quote") THEN ops[i].l[2]
                                 ELSE Raise("ValueError",
                                            "the Head function got an empty list")

\* Or of a falsy operand, the empty list and one that fails if evaluated
C15_Witness ==
    /\ pc = "ready"
    /\ expr = L(<<A("Or"), Quoted(A(":false")), Quoted(L(<<>>)),
                  L(<<A("Head"), A("Nil")>>)>>)
    /\ direct = L(<<>>)

\* C16: the body of a closure made by Lambda or Function resolves its free
\* variables in the environment where the form was evaluated, extended with
\* the call's bindings: a different binding in the caller's environment is
\* not seen, a variable bound by the caller alone is unbound, and a parameter
\* hides a captured variable of the same name.  A Lambda or Function whose
\* params is not a list of atoms, or a Function whose name is not an atom,
\* raises ValueError.  In both evaluators.
C16_LexicalScoping ==
    /\ pc # "idle" =>
          /\ \A k \in {"lambda_free", "function_free"} :
                expr = ClosureProgram(k) => direct = A(":one")
          /\ expr = ClosureProgram("caller_only") => IsErr(direct)
          /\ expr = ClosureProgram("param_hides") => direct = A(":x")
          /\ \A k \in {"params_atom", "param_list", "name_list",
                       "function_params_atom", "function_param_list"} :
                expr = ClosureProgram(k)
                    => IsErr(direct) /\ direct.err = "ValueError"
    /\ pc \in {"done", "error"} =>
          /\ \A k \in {"lambda_free", "function_free"} :
                expr = ClosureProgram(k) => result = A(":one")
          /\ expr = ClosureProgram("caller_only") => IsErr(result)
          /\ expr = ClosureProgram("param_hides") => result = A(":x")
          /\ \A k \in {"params_atom", "param_list", "name_list",
                       "function_params_atom", "function_param_list"} :
                expr = ClosureProgram(k)
                    => IsErr(result) /\ result.err = "ValueError"

\* both evaluators have applied a Lambda closure whose free variable the
\* caller binds differently
C16_Witness ==
    /\ pc = "done"
    /\ expr = ClosureProgram("lambda_free")
    /\ result = A(":one")
    /\ direct = A(":one")

C18_EmptyListError ==
    /\ expr = L(<<>>) =>
          /\ pc # "idle" =>
                direct = Raise("ValueError", "tried to evaluate an empty list")
          /\ pc \in {"done", "error"} =>
                result = Raise("ValueError", "tried to evaluate an empty list")
    /\ \A i \in 1..Len(call_stack) :
          call_stack[i].k = "EvaluateForCall" => call_stack[i].expr.l # <<>>

\* C19: an atom whose text begins with ':' evaluates to itself, in an
\* environment that binds it too; any other atom evaluates to the value of
\* its first binding in the environment, and evaluation fails, in the machine
\* with the lookup's ValueError, when the environment has no binding of it.
\* The machine's Evaluate frame of an atom yields the value as its result and
\* pushes no frame.
C19_AtomEvaluation ==
    /\ [](/\ pc # "idle" =>
                /\ expr \in {A(":a"), A(":test")} => direct = expr
                /\ expr = A("Nil") => direct = L(<<>>)
                /\ (expr = A("y") /\ env = ShadowingEnv) => direct = A(":blue")
                /\ (expr = A("y") /\ env = primitive_env) => IsErr(direct)
          /\ pc \in {"done", "error"} =>
                /\ expr \in {A(":a"), A(":test")} => result = expr
                /\ expr = A("Nil") => result = L(<<>>)
                /\ (expr = A("y") /\ env = ShadowingEnv) => result = A(":blue")
                /\ (expr = A("y") /\ env = primitive_env)
                      => result = Raise("ValueError",
                                        "the name is not in this environment"))
    /\ [][(TopIs("Evaluate") /\ is_atom(Top.expr)) =>
             LET e == Top.expr
                 bound == {i \in 1..Len(Top.env) : Top.env[i].name = e}
             IN /\ e.a \in ColonTexts =>
                      /\ last_result' = e
                      /\ call_stack' = Popped
                      /\ pc' = "loop"
                /\ (e.a \notin ColonTexts /\ bound # {}) =>
                      /\ \E i \in bound :
                            /\ \A j \in bound : i <= j
                            /\ last_result' = Top.env[i].value
                      /\ call_stack' = Popped
                      /\ pc' = "loop"
                /\ (e.a \notin ColonTexts /\ bound = {}) =>
                      /\ pc' = "error"
                      /\ result' = Raise("ValueError",
                                         "the name is not in this environment")]_vars

\* both evaluators have evaluated the data atom :a in an environment that
\* binds :a to :b
C19_Witness ==
    /\ pc = "done"
    /\ expr = A(":a")
    /\ env = ShadowingEnv
    /\ result = A(":a")
    /\ direct = A(":a")

C21_PrimitiveArity ==
    \A args \in UNION {[1..n -> {A(":a"), L(<<>>)}] : n \in 0..MaxN} :
        /\ \A f \in {"Not", "Cons", "Head", "Tail", "Error", "Is-Data-Atom"} :
              (/\ expr = ListProgram(f, args)
               /\ Len(args) # (IF f = "Cons" THEN 2 ELSE 1))
                 => LET arity_error(x) ==
                            /\ IsErr(x)
                            /\ x.err = "ValueError"
                            /\ x.msg \in
                                 {"unpack",
                                  "the Cons function got the wrong number of arguments",
                                  "the Head function didn't get any arguments",
                                  "the Head function got too many arguments",
                                  "the Tail function didn't get any arguments",
                                  "the Tail function got too many arguments"}
                    IN /\ pc # "idle" => arity_error(direct)
                       /\ pc \in {"done", "error"} => arity_error(result)
        /\ expr = ListProgram("List", args) =>
              /\ pc # "idle" => direct = L(args)
              /\ pc \in {"done", "error"} => result = L(args)
        /\ expr = ListProgram("=", args) =>
              LET expected == IF \A i, j \in 1..Len(args) : args[i] = args[j]
                              THEN A(":true") ELSE A(":false")
              IN /\ pc # "idle" => direct = expected
                 /\ pc \in {"done", "error"} => result = expected

\* C22: a list whose head is the name of a special form (Quote, Lambda,
\* Function, And, Or, Cond, Where) is evaluated as that form, whatever the
\* environment binds the name to, and the form gets its arguments
\* unevaluated: Quote returns its argument as written, And stops before an
\* operand that would fail, and the machine's Evaluate step of such a list
\* never starts an ordinary call.  In both evaluators.
C22_SpecialFormDispatch ==
    /\ [](/\ pc # "idle" =>
                /\ expr = TestQuote => direct = A("test")
                /\ expr = L(<<A("Quote"), A("a"), A("b")>>) => IsErr(direct)
                /\ expr = L(<<A("And"), Quoted(A(":false")),
                              L(<<A("Head"), A("Nil")>>)>>)
                      => direct = A(":false")
          /\ pc \in {"done", "error"} =>
                /\ expr = TestQuote => result = A("test")
                /\ expr = L(<<A("Quote"), A("a"), A("b")>>) => IsErr(result)
                /\ expr = L(<<A("And"), Quoted(A(":false")),
                              L(<<A("Head"), A("Nil")>>)>>)
                      => result = A(":false"))
    /\ [][(/\ TopIs("Evaluate")
           /\ is_list(Top.expr)
           /\ Len(Top.expr.l) >= 1
           /\ is_atom(Top.expr.l[1])
           /\ Top.expr.l[1].a \in {"Quote", "Lambda", "Function", "And", "Or",
                                   "Cond", "Where"}
           /\ pc' = "loop")
              => \/ call_stack' = Popped
                 \/ /\ Len(call_stack') = Len(call_stack)
                    /\ call_stack'[Len(call_stack')].k \in {"Cond", "Where"}
                    /\ call_stack'[Len(call_stack')].env = Top.env]_vars

\* C23: whenever the frame the driving loop is about to pop is a continuation
\* frame (GotValueForCall, GotValueForWhere, GotValueForCond), last_result is
\* present, so no run, of a well-formed expression or of any other, ends in
\* the error of a continuation frame that didn't get a result.
C23_ContinuationGetsResult ==
    /\ (/\ pc = "loop"
        /\ call_stack # <<>>
        /\ Top.k \in {"GotValueForCall", "GotValueForWhere", "GotValueForCond"})
          => ~IsNone(last_result)
    /\ pc = "error" =>
          result.msg \notin {"GotValueForCall didn't get a result",
                             "GotValueForWhere didn't get a result",
                             "GotValueForCond didn't get a result"}

\* the loop is about to pop the continuation of a Cond case, with the value
\* of the case's condition as last_result
C23_Witness ==
    /\ pc = "loop"
    /\ expr = CondProgram("falsy_action")
    /\ call_stack # <<>>
    /\ Top.k = "GotValueForCond"
    /\ ~IsNone(last_result)

\* C24: a continuation frame pushed under an Evaluate frame runs only after
\* that evaluation has completed.  A step of the loop leaves every frame
\* under the top one as it is; a continuation frame comes to the top only by
\* the frame above it returning a result and no frames, and that result is
\* what it is called with; and the value GotValueForCall is called with is
\* the value of the element it was pushed for, in the call's environment.
C24_ContinuationOrdering ==
    /\ [](TopIs("GotValueForCall") =>
             last_result = simple_eval_in(Top.expr.l[Len(Top.values) + 1],
                                          Top.env, 0))
    /\ [][(pc = "loop" /\ call_stack # <<>>) =>
             /\ Len(call_stack') >= Len(call_stack) - 1
             /\ SubSeq(call_stack', 1, Len(call_stack) - 1) = Popped
             /\ (/\ pc' = "loop"
                 /\ call_stack' # <<>>
                 /\ call_stack'[Len(call_stack')].k \in
                       {"GotValueForCall", "GotValueForWhere", "GotValueForCond"})
                   => /\ call_stack' = Popped
                      /\ Top.k \in {"Evaluate", "EvaluateForCall"}
                      /\ ~IsNone(last_result')
                      /\ last_result' = Frame_call(Top, last_result).result_expr]_vars

\* the continuation of the call (Head (Cons ...)) is on top with the value of
\* its element (Cons ...), a call whose own elements were evaluated on top
\* of it
C24_Witness ==
    /\ pc = "loop"
    /\ expr = L(<<A("Head"),
                  ListProgram("Cons", <<A(":x"), L(<<A(":false")>>)>>)>>)
    /\ Len(call_stack) = 1
    /\ Top.k = "GotValueForCall"
    /\ Len(Top.values) = 1
    /\ last_result = L(<<A(":x"), A(":false")>>)

\* C25: an ordinary call evaluates the elements of its list in order, the
\* function position first.  The accumulator of every EvaluateForCall and
\* GotValueForCall frame holds the values of the first elements of the list,
\* one per element and in element order, each the value of its element in
\* the call's environment; the next element evaluated is the first without
\* a value, in that environment, and its value is appended; with a value
\* for every element the first is applied as the function to the rest.
C25_CallElementOrder ==
    /\ [](\A i \in 1..Len(call_stack) :
             call_stack[i].k \in {"EvaluateForCall", "GotValueForCall"} =>
                LET f == call_stack[i]
                IN /\ Len(f.values) <= Len(f.expr.l)
                   /\ f.k = "GotValueForCall" => Len(f.values) < Len(f.expr.l)
                   /\ \A j \in 1..Len(f.values) :
                         f.values[j] = simple_eval_in(f.expr.l[j], f.env, 0))
    /\ [][/\ (TopIs("EvaluateForCall") /\ Len(Top.values) < Len(Top.expr.l))
                => call_stack' = Popped \o
                      <<GotValueForCall(Top.expr, Top.values, Top.env),
                        Evaluate(Top.expr.l[Len(Top.values) + 1], Top.env)>>
          /\ TopIs("GotValueForCall")
                => call_stack' = Popped \o
                      <<EvaluateForCall(Top.expr, Top.values \o <<last_result>>,
                                        Top.env)>>
          /\ (/\ TopIs("EvaluateForCall")
              /\ Len(Top.values) = Len(Top.expr.l)
              /\ pc' = "loop")
                => LET func == Function_from_symex(Top.values[1])
                   IN IF IsPrimitive(func)
                      THEN /\ call_stack' = Popped
                           /\ last_result' = Primitive_apply(func, Tail(Top.values))
                      ELSE /\ Len(Tail(Top.values)) = Len(func.params)
                           /\ call_stack'[Len(call_stack')].k = "Evaluate"
                           /\ call_stack'[Len(call_stack')].expr = func.body]_vars

\* the call (Cons (Quote :x) (Quote (:false))) is about to be applied: the
\* accumulator holds the value of Cons and of the two arguments, in order
C25_Witness ==
    /\ TopIs("EvaluateForCall")
    /\ Top.expr = ListProgram("Cons", <<A(":x"), L(<<A(":false")>>)>>)
    /\ Top.values = <<L(<<A(":primitive"), A("Cons")>>), A(":x"),
                      L(<<A(":false")>>)>>

\* C26: the application step of EvaluateForCall, taken with a value for every
\* element, adds no continuation layer.  Applying a primitive yields a result
\* and no frame.  Applying a closure yields no result and one frame, Evaluate
\* of the closure's body in the call environment (the self-name binding of a
\* named closure, then the parameters bound to the arguments, then the
\* captured environment), in the place of the EvaluateForCall frame: the
\* stack is as deep after the step as before it.
C26_ApplicationAddsNoLayer ==
    [][(/\ TopIs("EvaluateForCall")
        /\ Len(Top.values) = Len(Top.expr.l)
        /\ pc' = "loop")
          => LET func == Function_from_symex(Top.values[1])
                 args == Tail(Top.values)
             IN IF IsPrimitive(func)
                THEN /\ call_stack' = Popped
                     /\ ~IsNone(last_result')
                ELSE /\ call_stack' = Popped \o
                           <<Evaluate(func.body,
                                      (IF IsNone(func.name) THEN <<>>
                                       ELSE <<Binding(func.name, Top.values[1])>>)
                                      \o [i \in 1..Len(args) |->
                                             Binding(func.params[i], args[i])]
                                      \o func.env)>>
                     /\ IsNone(last_result')
                     /\ Len(call_stack') = Len(call_stack)]_vars

\* the machine has applied Laugh to the empty list inside the Cons call of
\* the application before: the body's Evaluate frame is where the
\* EvaluateForCall frame was
C26_Witness ==
    /\ pc = "loop"
    /\ expr = Laugh(1)
    /\ call_stack # <<>>
    /\ Top.k = "Evaluate"
    /\ Top.expr = LaughFunction.l[4]
    /\ Len(call_stack) >= 2
    /\ IsNone(last_result)

\* C27: a frame step that does not raise returns either a result and no
\* frames, or one or more frames and no result.  So when the loop finds the
\* stack empty last_result is present: eval_in returns it, and never raises
\* the error of a last stack frame that didn't return a result.
C27_ResultOrFrames ==
    /\ []((pc = "loop" /\ call_stack = <<>>) => ~IsNone(last_result))
    /\ [](pc = "error" =>
             result.msg # "the last stack frame didn't return a result")
    /\ [][/\ (pc = "loop" /\ call_stack # <<>> /\ pc' = "loop")
                => \/ /\ call_stack' = Popped
                      /\ ~IsNone(last_result')
                   \/ /\ Len(call_stack') >= Len(call_stack)
                      /\ SubSeq(call_stack', 1, Len(call_stack) - 1) = Popped
                      /\ IsNone(last_result')
          /\ (pc = "loop" /\ call_stack = <<>>)
                => pc' = "done" /\ result' = last_result]_vars

\* eval_in has returned the result of the last frame, the Evaluate frame of
\* (Quote test)
C27_Witness ==
    /\ pc = "done"
    /\ expr = TestQuote
    /\ call_stack = <<>>
    /\ last_result = A("test")
    /\ result = last_result

\* C28: while the driving loop runs, every frame under the top of the stack
\* is a continuation frame (GotValueForCall, GotValueForWhere or
\* GotValueForCond), so the only frame of another class (Evaluate,
\* EvaluateForCall, Cond, Where) the stack can hold is its top; and
\* last_result is present exactly when the stack is empty or its top is a
\* continuation frame.
C28_StackShape ==
    pc = "loop" =>
        /\ \A i \in 1..(Len(call_stack) - 1) :
              call_stack[i].k \in {"GotValueForCall", "GotValueForWhere",
                                   "GotValueForCond"}
        /\ \A i \in 1..Len(call_stack) :
              call_stack[i].k \in {"Evaluate", "EvaluateForCall", "Cond", "Where"}
                  => i = Len(call_stack)
        /\ ~IsNone(last_result) <=>
              \/ call_stack = <<>>
              \/ call_stack[Len(call_stack)].k \in
                    {"GotValueForCall", "GotValueForWhere", "GotValueForCond"}

\* a Where frame on top of the continuation of the call whose element the
\* Where is, with no last result
C28_Witness ==
    /\ pc = "loop"
    /\ expr = WhereProgram("inner_hides_outer")
    /\ Len(call_stack) = 2
    /\ call_stack[1].k = "GotValueForCall"
    /\ call_stack[2].k = "Where"
    /\ IsNone(last_result)

\* C29: started in the bootstrap environment, the driving loop reaches an
\* empty stack and returns, or raises an error, after finitely many frame
\* steps, unless it comes to apply a closure: a run that applies no closure
\* (data atoms, variables, Quote, Cond, Where and calls of primitives) ends.
C29_TerminationWithoutClosures ==
    (pc = "loop" /\ env = primitive_env)
        ~> \/ pc \in {"done", "error"}
           \/ /\ TopIs("EvaluateForCall")
              /\ Len(Top.values) = Len(Top.expr.l)
              /\ Len(Top.values) >= 1
              /\ ~IsErr(Function_from_symex(Top.values[1]))
              /\ ~IsPrimitive(Function_from_symex(Top.values[1]))

\* the machine has come to the end of a Cond that went through a falsy case,
\* a call of a primitive and a variable, in the bootstrap environment
C29_Witness ==
    /\ pc = "done"
    /\ env = primitive_env
    /\ expr = CondProgram("falsy_action")
    /\ result = A(":a")
    /\ call_stack = <<>>

\* C30: the environment a closure's body runs in has as many bindings as the
\* closure's captured environment, plus one for each parameter, plus one if
\* the closure is named, at every application; so the bodies of the
\* self-recursive functions Laugh, Loop and the Where loop, made in the
\* starting environment with one parameter, run at every depth of the
\* recursion in an environment two bindings longer than the starting one.
C30_CallEnvironmentSize ==
    /\ [](\A i \in 1..Len(call_stack) :
             (/\ call_stack[i].k = "Evaluate"
              /\ expr \in LaughPrograms \cup TailPrograms
              /\ call_stack[i].expr \in {LaughFunction.l[4], LoopFunction.l[4],
                                         WhereLoopFunction.l[4]})
                => Len(call_stack[i].env) = Len(env) + 2)
    /\ [][(/\ TopIs("EvaluateForCall")
           /\ Len(Top.values) = Len(Top.expr.l)
           /\ pc' = "loop"
           /\ ~IsPrimitive(Function_from_symex(Top.values[1])))
             => LET func == Function_from_symex(Top.values[1])
                IN Len(call_stack'[Len(call_stack')].env)
                      = Len(func.env) + Len(func.params)
                        + (IF IsNone(func.name) THEN 0 ELSE 1)]_vars

\* Laugh applied for the last time, to the empty list, at the greatest depth
\* of its recursion
C30_Witness ==
    /\ pc = "loop"
    /\ expr = Laugh(MaxN)
    /\ Len(call_stack) = MaxN + 1
    /\ Top.k = "Evaluate"
    /\ Top.expr = LaughFunction.l[4]
    /\ Len(Top.env) = Len(env) + 2

-----------------------------------------------------------------------------
(* symex.types as a state machine: Environment objects *)

\* every sequence over S of length at most n
SeqsUpTo(S, n) == UNION {[1..k -> S] : k \in 0..n}

\* the names and values bindings are drawn from
Names == {A("x"), A("y")}
Values == {A(":a"), L(<<A(":b")>>)}
\* the new bindings an extension draws from: one name with two values, so
\* that the first match and a later one differ
Bindings == {Binding(A("x"), A(":a")), Binding(A("x"), L(<<A(":b")>>))}
BindingLists == SeqsUpTo(Bindings, MaxBind)

\* the environments alive at the start: the empty one, and one with a
\* duplicate name
InitEnvs ==
    {<<>>,
     <<Binding(A("y"), L(<<A(":b")>>)), Binding(A("x"), A(":a")),
       Binding(A("y"), A(":a"))>>}

MachineIdle ==
    /\ expr = None
    /\ env = <<>>
    /\ pc = "idle"
    /\ call_stack = <<>>
    /\ last_result = None
    /\ direct = None
    /\ result = None

EnvInit ==
    /\ MachineIdle
    /\ heap \in {<<e>> : e \in InitEnvs}
    /\ held = <<>>
    /\ op = [name |-> "none"]

\* an extend_with that prepends to the receiver's own list of bindings
Environment_extend_with_in_place(h, self, new_bindings) ==
    [heap |-> [h EXCEPT ![self] = extend_with(h[self], new_bindings)],
     ret |-> self]

\* Environment.extend_with on the object self of heap h: the heap afterwards
\* and the id of the Environment returned
Environment_extend_with(h, self, new_bindings) ==
    [heap |-> Append(h, extend_with(h[self], new_bindings)),
     ret |-> Len(h) + 1]

\* the caller holding the newest environment extends it with new_bindings
\* (as GotValueForWhere.call and Closure.build_env do) and goes on holding
\* the one it extended
ExtendWith ==
    /\ Len(heap) < MaxEnvs
    /\ \E new_bindings \in BindingLists :
          LET self == Len(heap)
              r == Environment_extend_with(heap, self, new_bindings)
          IN /\ heap' = r.heap
             /\ held' = [i \in DOMAIN held \cup {self} |->
                            IF i \in DOMAIN held THEN held[i] ELSE heap[self]]
             /\ op' = [name |-> "extend_with", self |-> self,
                       new_bindings |-> new_bindings, ret |-> r.ret]
    /\ UNCHANGED machineVars

\* name in self, and self[name]
Lookup ==
    /\ \E self \in DOMAIN heap, name \in Names \cup {A("z")} :
          op' = [name |-> "getitem", self |-> self, key |-> name,
                 contains |-> env_contains(heap[self], name),
                 ret |-> env_getitem(heap[self], name)]
    /\ UNCHANGED <<heap, held>>
    /\ UNCHANGED machineVars

\* Environment.from_symex(self.to_symex())
EnvRoundTrip ==
    /\ \E self \in DOMAIN heap :
          LET symex == Environment_to_symex(heap[self])
          IN op' = [name |-> "env_round_trip", self |-> self, symex |-> symex,
                    ret |-> Environment_from_symex(symex)]
    /\ UNCHANGED <<heap, held>>
    /\ UNCHANGED machineVars

EnvNext ==
    \/ ExtendWith
    \/ Lookup
    \/ EnvRoundTrip

SpecEnv == EnvInit /\ [][EnvNext]_vars

\* C6: a lookup returns the value of the first binding, front to back, whose
\* name matches, and fails when there is none; after extend_with(new) a name
\* bound in new gives the first such new binding's value and any other name
\* gives what the receiver gave; name in env holds iff env[name] succeeds.
C6_FirstMatchLookup ==
    /\ op.name = "getitem" =>
          LET b == heap[op.self]
              hits == {i \in 1..Len(b) : b[i].name = op.key}
          IN /\ hits = {} => IsErr(op.ret)
             /\ hits # {} =>
                   \E i \in hits : (\A j \in hits : i <= j) /\ op.ret = b[i].value
             /\ op.contains <=> ~IsErr(op.ret)
    /\ op.name = "extend_with" =>
          \A name \in Names \cup {A("z")} :
             LET new == op.new_bindings
                 hits == {i \in 1..Len(new) : new[i].name = name}
                 got == env_getitem(heap[op.ret], name)
             IN /\ hits # {} =>
                      \E i \in hits : (\A j \in hits : i <= j) /\ got = new[i].value
                /\ hits = {} => got = env_getitem(heap[op.self], name)
                /\ env_contains(heap[op.ret], name) <=> ~IsErr(got)

\* a lookup, in an environment made by extend_with, of a name bound twice
\* to different values
C6_Witness ==
    /\ op.name = "getitem"
    /\ op.self > 1
    /\ op.contains
    /\ \E i, j \in 1..Len(heap[op.self]) :
          /\ i < j
          /\ heap[op.self][i].name = op.key
          /\ heap[op.self][j].name = op.key
          /\ heap[op.self][i].value # heap[op.self][j].value

\* C7: extend_with returns a new environment, the new bindings followed by
\* the receiver's, and leaves the receiver as it was: every environment a
\* caller still holds gives the lookup results it gave when the caller got
\* it, whatever extensions came later.
C7_ExtendWithPure ==
    /\ \A i \in DOMAIN held :
          /\ heap[i] = held[i]
          /\ \A name \in Names \cup {A("z")} :
                env_getitem(heap[i], name) = env_getitem(held[i], name)
    /\ op.name = "extend_with" =>
          /\ op.ret # op.self
          /\ heap[op.ret] = op.new_bindings \o held[op.self]

\* the first environment, not empty, is still held after its extension has
\* been extended with a binding for a name it binds
C7_Witness ==
    /\ op.name = "extend_with"
    /\ op.self > 1
    /\ 1 \in DOMAIN held
    /\ held[1] # <<>>
    /\ \E i \in 1..Len(op.new_bindings) : env_contains(held[1], op.new_bindings[i].name)

\* C8: Environment.from_symex(e.to_symex()) succeeds and equals e, binding
\* for binding in the same order, duplicates and the empty environment
\* included.
C8_EnvironmentRoundTrip ==
    op.name = "env_round_trip" =>
        /\ ~IsErr(op.ret)
        /\ op.ret.env = heap[op.self]
        /\ Len(op.symex.l) = Len(heap[op.self])

\* the round trip of an environment that binds one name twice, to
\* different values
C8_Witness ==
    /\ op.name = "env_round_trip"
    /\ ~IsErr(op.ret)
    /\ \E i, j \in 1..Len(heap[op.self]) :
          /\ i < j
          /\ heap[op.self][i].name = heap[op.self][j].name
          /\ heap[op.self][i].value # heap[op.self][j].value

-----------------------------------------------------------------------------
(* symex.types as a state machine: Closure *)

\* the closures drawn: unnamed and named, with a parameter that may repeat
\* the self-name, over an empty and a non-empty captured environment
ParamLists == SeqsUpTo({A("x"), A("f")}, MaxBind)
ArgLists == SeqsUpTo(Values, MaxBind)
Bodies == {A("x"), L(<<A("f"), A("x")>>)}
Closures ==
    {Closure(params, name, body, cenv) :
        params \in ParamLists, name \in {None, A("f")}, body \in Bodies,
        cenv \in InitEnvs}

\* the well-formed closure symexes drawn, written out as lists
EnvSymexes ==
    {L(<<>>),
     L(<<L(<<A("y"), L(<<A(":b")>>)>>), L(<<A("x"), A(":a")>>),
         L(<<A("y"), A(":a")>>)>>)}
ClosureSymexes ==
    {L(<<A(":closure"), name_list, L(params), body, env_expr>>) :
        name_list \in {L(<<>>), L(<<A("f")>>)}, params \in ParamLists,
        body \in Bodies, env_expr \in EnvSymexes}

\* the arguments an operation is about to be applied to
ClosureInit ==
    /\ MachineIdle
    /\ heap = <<>>
    /\ held = <<>>
    /\ op \in {[name |-> "closure", c |-> c, args |-> args] :
                  c \in Closures, args \in ArgLists}
          \cup {[name |-> "function", function |-> f, args |-> args] :
                  f \in ClosureSymexes, args \in ArgLists}

\* Closure.from_symex(c.to_symex())
ClosureRoundTrip ==
    /\ op.name = "closure"
    /\ op' = [name |-> "closure_round_trip", c |-> op.c,
              symex |-> Closure_to_symex(op.c),
              ret |-> Closure_from_symex(Closure_to_symex(op.c))]
    /\ UNCHANGED <<heap, held>>
    /\ UNCHANGED machineVars

\* Function.from_symex(s).to_symex()
FunctionRoundTrip ==
    /\ op.name = "function"
    /\ LET func == Function_from_symex(op.function)
       IN op' = [name |-> "function_round_trip", function |-> op.function,
                 func |-> func,
                 ret |-> IF IsErr(func) THEN func
                         ELSE IF IsClosure(func) THEN Closure_to_symex(func)
                         ELSE Primitive_to_symex(func)]
    /\ UNCHANGED <<heap, held>>
    /\ UNCHANGED machineVars

\* c.build_env(args)
BuildEnv ==
    /\ op.name = "closure"
    /\ op' = [name |-> "build_env", c |-> op.c, args |-> op.args,
              ret |-> Closure_build_env(op.c, op.args)]
    /\ UNCHANGED <<heap, held>>
    /\ UNCHANGED machineVars

\* build_function_env(function, args)
BuildFunctionEnv ==
    /\ op.name = "function"
    /\ op' = [name |-> "build_function_env", function |-> op.function,
              args |-> op.args,
              ret |-> build_function_env(op.function, op.args)]
    /\ UNCHANGED <<heap, held>>
    /\ UNCHANGED machineVars

ClosureNext ==
    \/ ClosureRoundTrip
    \/ FunctionRoundTrip
    \/ BuildEnv
    \/ BuildFunctionEnv

SpecClosure == ClosureInit /\ [][ClosureNext]_vars

\* C9: Closure.from_symex(c.to_symex()) equals c, for a closure with and
\* without a self-name; and Function.from_symex(s).to_symex() equals s for a
\* well-formed closure symex s.
C9_ClosureRoundTrip ==
    /\ op.name = "closure_round_trip" => op.ret = op.c
    /\ op.name = "function_round_trip" =>
          /\ IsClosure(op.func)
          /\ op.ret = op.function

\* the round trip of a named closure with parameters and a captured
\* environment
C9_Witness ==
    /\ op.name = "closure_round_trip"
    /\ ~IsErr(op.ret)
    /\ ~IsNone(op.c.name)
    /\ op.c.params # <<>>
    /\ op.c.env # <<>>

\* C10: build_env(args) raises the arity error iff len(args) # len(params);
\* otherwise it returns [self-name -> the closure's symex] (only for a named
\* closure), then param -> arg in parameter order, then the captured
\* environment, so that the self-name hides a parameter of the same text;
\* it runs neither evaluator.  build_function_env does the same on the
\* closure's symex.
C10_BuildEnv ==
    /\ op.name = "build_env" =>
          LET c == op.c
              self_binding == IF IsNone(c.name) THEN <<>>
                              ELSE <<Binding(c.name, Closure_to_symex(c))>>
              pairs == [i \in 1..Len(c.params) |-> Binding(c.params[i], op.args[i])]
          IN /\ IsErr(op.ret) <=> Len(op.args) # Len(c.params)
             /\ IsErr(op.ret) =>
                   op.ret = Raise("ValueError", "closure got wrong number of arguments")
             /\ ~IsErr(op.ret) =>
                   /\ op.ret.env = self_binding \o pairs \o c.env
                   /\ ~IsNone(c.name) =>
                         env_getitem(op.ret.env, c.name) = Closure_to_symex(c)
    /\ op.name = "build_function_env" =>
          LET name_list == op.function.l[2].l
              params == op.function.l[3].l
              self_pair == IF name_list = <<>> THEN <<>>
                           ELSE <<L(<<name_list[1], op.function>>)>>
              pairs == [i \in 1..Len(params) |-> L(<<params[i], op.args[i]>>)]
          IN /\ IsErr(op.ret) <=> Len(op.args) # Len(params)
             /\ IsErr(op.ret) =>
                   op.ret = Raise("ValueError", "closure got wrong number of arguments")
             /\ ~IsErr(op.ret) =>
                   /\ Environment_to_symex(op.ret.env) =
                         L(self_pair \o pairs \o op.function.l[5].l)
                   /\ name_list # <<>> =>
                         env_getitem(op.ret.env, name_list[1]) = op.function
    /\ op.name \in {"build_env", "build_function_env"} =>
          pc = "idle" /\ call_stack = <<>> /\ IsNone(direct) /\ IsNone(result)

\* build_env of a named closure one of whose parameters has the text of the
\* self-name, with as many arguments as parameters
C10_Witness ==
    /\ op.name = "build_env"
    /\ ~IsErr(op.ret)
    /\ ~IsNone(op.c.name)
    /\ \E i \in 1..Len(op.c.params) : op.c.params[i] = op.c.name

====
